---- MODULE Spec2Model ----
(***************************************************************************)
(* Model of the Indian movie monitor (src/app.py): the persistence gate    *)
(* save_movie_update over the movie_updates table, the two classifiers,    *)
(* the per-platform poller loops, the notification decision and the        *)
(* start/stop control handlers.                                            *)
(*                                                                         *)
(* Texts are sequences of one-character strings, so that lower() and the   *)
(* substring test `word in text.lower()` are computed, not assumed.        *)
(* Enumerated values (platform, update_type, language, canonical names)    *)
(* are TLA+ strings; "" is Python's empty string for those fields.         *)
(***************************************************************************)
EXTENDS Integers, Sequences, FiniteSets, TLC

(***************************************************************************)
(* Bounds of the model.                                                    *)
(***************************************************************************)
\* successful start calls (each spawns one thread per platform)
MaxStarts == 2
\* accounts / channels / queries / news sources iterated in one batch pass
NumSources == 1
\* items one remote fetch returns
MaxItems == 1
\* saturation value of the observation counters
CountCap == 2

(***************************************************************************)
(* Text helpers: str.lower() and the `in` substring test.                  *)
(***************************************************************************)
UpperCase ==
    <<"A","B","C","D","E","F","G","H","I","J","K","L","M",
      "N","O","P","Q","R","S","T","U","V","W","X","Y","Z">>

LowerCase ==
    <<"a","b","c","d","e","f","g","h","i","j","k","l","m",
      "n","o","p","q","r","s","t","u","v","w","x","y","z">>

lower_char(c) ==
    IF \E k \in 1..Len(UpperCase) : UpperCase[k] = c
    THEN LowerCase[CHOOSE k \in 1..Len(UpperCase) : UpperCase[k] = c]
    ELSE c

lower(text) == SubSeq([k \in 1..Len(text) |-> lower_char(text[k])], 1, Len(text))

\* word in text
contains(text, word) ==
    \E p \in 0..(Len(text) - Len(word)) :
        \A k \in 1..Len(word) : text[p + k] = word[k]

\* any(word in text for word in words)
any_word_in(words, text) ==
    \E w \in 1..Len(words) : contains(text, words[w])

(***************************************************************************)
(* Keyword lists of extract_movie_info (prefix kw_) and of                 *)
(* enhanced_extract_movie_info (prefix ekw_), in source order.             *)
(***************************************************************************)
kw_trailer ==
    << <<"t","r","a","i","l","e","r">>,
       <<"o","f","f","i","c","i","a","l"," ","t","r","a","i","l","e","r">> >>

kw_teaser ==
    << <<"t","e","a","s","e","r">>,
       <<"g","l","i","m","p","s","e">> >>

kw_poster ==
    << <<"p","o","s","t","e","r">>,
       <<"f","i","r","s","t"," ","l","o","o","k">> >>

kw_announcement ==
    << <<"r","e","l","e","a","s","e">>,
       <<"a","n","n","o","u","n","c","e","m","e","n","t">> >>

kw_telugu ==
    << <<"t","e","l","u","g","u">>,
       <<"t","o","l","l","y","w","o","o","d">> >>

kw_tamil ==
    << <<"t","a","m","i","l">>,
       <<"k","o","l","l","y","w","o","o","d">> >>

kw_hindi ==
    << <<"h","i","n","d","i">>,
       <<"b","o","l","l","y","w","o","o","d">> >>

ekw_trailer ==
    << <<"t","r","a","i","l","e","r">>,
       <<"o","f","f","i","c","i","a","l"," ","t","r","a","i","l","e","r">> >>

ekw_teaser ==
    << <<"t","e","a","s","e","r">>,
       <<"g","l","i","m","p","s","e">>,
       <<"s","n","e","a","k"," ","p","e","e","k">> >>

ekw_poster ==
    << <<"p","o","s","t","e","r">>,
       <<"f","i","r","s","t"," ","l","o","o","k">>,
       <<"c","h","a","r","a","c","t","e","r"," ","p","o","s","t","e","r">> >>

ekw_announcement ==
    << <<"r","e","l","e","a","s","e"," ","d","a","t","e">>,
       <<"a","n","n","o","u","n","c","e","m","e","n","t">>,
       <<"o","f","f","i","c","i","a","l">> >>

ekw_box_office ==
    << <<"b","o","x"," ","o","f","f","i","c","e">>,
       <<"c","o","l","l","e","c","t","i","o","n">>,
       <<"e","a","r","n","i","n","g","s">> >>

ekw_review ==
    << <<"r","e","v","i","e","w">>,
       <<"r","a","t","i","n","g">> >>

ekw_telugu ==
    << <<"t","e","l","u","g","u">>,
       <<"t","o","l","l","y","w","o","o","d">>,
       <<"a","n","d","h","r","a">>,
       <<"t","e","l","a","n","g","a","n","a">> >>

ekw_tamil ==
    << <<"t","a","m","i","l">>,
       <<"k","o","l","l","y","w","o","o","d">>,
       <<"t","a","m","i","l","n","a","d","u">> >>

ekw_hindi ==
    << <<"h","i","n","d","i">>,
       <<"b","o","l","l","y","w","o","o","d">>,
       <<"m","u","m","b","a","i">> >>

ekw_malayalam ==
    << <<"m","a","l","a","y","a","l","a","m">>,
       <<"m","o","l","l","y","w","o","o","d">>,
       <<"k","e","r","a","l","a">> >>

ekw_kannada ==
    << <<"k","a","n","n","a","d","a">>,
       <<"s","a","n","d","a","l","w","o","o","d">>,
       <<"k","a","r","n","a","t","a","k","a">> >>

TextTrailer == <<"T","r","a","i","l","e","r">>

TextOfficial == <<"o","f","f","i","c","i","a","l">>

TextPlain == <<"h","i">>

(***************************************************************************)
(* extract_movie_info: the classifier used by monitor_twitter,             *)
(* monitor_instagram, monitor_youtube and monitor_news_websites.  Its      *)
(* movie_patterns and actor_patterns lists are never applied, so the       *)
(* entity fields stay ''.                                                  *)
(***************************************************************************)
\* a classifier that applies the first of its actor_patterns
extract_with_actor_patterns(text) ==
    CHOOSE info \in {
          [ movie_name |-> <<>>,
            actor_name |-> IF contains(t, <<"p","r","a","b","h","a","s">>)
                           THEN "prabhas" ELSE "",
            director_name |-> "",
            update_type |->
                IF any_word_in(kw_trailer, t) THEN "trailer"
                ELSE IF any_word_in(kw_teaser, t) THEN "teaser"
                ELSE IF any_word_in(kw_poster, t) THEN "poster"
                ELSE IF any_word_in(kw_announcement, t) THEN "announcement"
                ELSE "news",
            language |->
                IF any_word_in(kw_telugu, t) THEN "telugu"
                ELSE IF any_word_in(kw_tamil, t) THEN "tamil"
                ELSE IF any_word_in(kw_hindi, t) THEN "hindi"
                ELSE "" ] : t \in {lower(text)} } : TRUE

extract_movie_info(text) ==
    CHOOSE info \in {
          [ movie_name |-> <<>>,
            actor_name |-> "",
            director_name |-> "",
            update_type |->
                IF any_word_in(kw_trailer, t) THEN "trailer"
                ELSE IF any_word_in(kw_teaser, t) THEN "teaser"
                ELSE IF any_word_in(kw_poster, t) THEN "poster"
                ELSE IF any_word_in(kw_announcement, t) THEN "announcement"
                ELSE "news",
            language |->
                IF any_word_in(kw_telugu, t) THEN "telugu"
                ELSE IF any_word_in(kw_tamil, t) THEN "tamil"
                ELSE IF any_word_in(kw_hindi, t) THEN "hindi"
                ELSE "" ] : t \in {lower(text)} } : TRUE

(***************************************************************************)
(* Lookup tables of enhanced_extract_movie_info, in dict insertion order:  *)
(* <<lowercase key, canonical name>>.                                      *)
(***************************************************************************)
telugu_actors ==
    << <<<<"a","l","l","u"," ","a","r","j","u","n">>, "Allu Arjun">>,
       <<<<"p","r","a","b","h","a","s">>, "Prabhas">>,
       <<<<"m","a","h","e","s","h"," ","b","a","b","u">>, "Mahesh Babu">>,
       <<<<"j","r"," ","n","t","r">>, "Jr. NTR">>,
       <<<<"n","t","r">>, "Jr. NTR">>,
       <<<<"r","a","m"," ","c","h","a","r","a","n">>, "Ram Charan">>,
       <<<<"c","h","i","r","a","n","j","e","e","v","i">>, "Chiranjeevi">>,
       <<<<"b","a","l","a","k","r","i","s","h","n","a">>, "Balakrishna">>,
       <<<<"v","i","j","a","y"," ","d","e","v","e","r","a","k","o","n","d","a">>, "Vijay Deverakonda">>,
       <<<<"n","a","n","i">>, "Nani">>,
       <<<<"r","a","v","i"," ","t","e","j","a">>, "Ravi Teja">>,
       <<<<"n","i","t","h","i","i","n">>, "Nithiin">>,
       <<<<"s","h","a","r","w","a","n","a","n","d">>, "Sharwanand">> >>

directors ==
    << <<<<"r","a","j","a","m","o","u","l","i">>, "S.S. Rajamouli">>,
       <<<<"p","u","r","i"," ","j","a","g","a","n","n","a","d","h">>, "Puri Jagannadh">>,
       <<<<"t","r","i","v","i","k","r","a","m">>, "Trivikram Srinivas">>,
       <<<<"k","o","r","a","t","a","l","a"," ","s","i","v","a">>, "Koratala Siva">>,
       <<<<"s","u","k","u","m","a","r">>, "Sukumar">>,
       <<<<"v","a","m","s","h","i"," ","p","a","i","d","i","p","a","l","l","y">>, "Vamshi Paidipally">> >>

production_houses ==
    << <<<<"g","e","e","t","h","a"," ","a","r","t","s">>, "Geetha Arts">>,
       <<<<"m","y","t","h","r","i"," ","m","o","v","i","e"," ","m","a","k","e","r","s">>, "Mythri Movie Makers">>,
       <<<<"p","e","o","p","l","e"," ","m","e","d","i","a"," ","f","a","c","t","o","r","y">>, "People Media Factory">>,
       <<<<"s","r","i"," ","v","e","n","k","a","t","e","s","w","a","r","a"," ","c","r","e","a","t","i","o","n","s">>, "Sri Venkateswara Creations">>,
       <<<<"v","y","j","a","y","a","n","t","h","i"," ","m","o","v","i","e","s">>, "Vyjayanthi Movies">>,
       <<<<"d","v","v"," ","e","n","t","e","r","t","a","i","n","m","e","n","t","s">>, "DVV Entertainments">> >>

\* a lookup that keeps the last matching entry
last_table_match(table, text_lower) ==
    IF \E k \in 1..Len(table) : contains(text_lower, table[k][1])
    THEN table[CHOOSE k \in 1..Len(table) :
                   /\ contains(text_lower, table[k][1])
                   /\ \A m \in (k + 1)..Len(table) : ~contains(text_lower, table[m][1])][2]
    ELSE ""

\* for key, name in table.items(): if key in text_lower: ...; break
first_table_match(table, text_lower) ==
    IF \E k \in 1..Len(table) : contains(text_lower, table[k][1])
    THEN table[CHOOSE k \in 1..Len(table) :
                   /\ contains(text_lower, table[k][1])
                   /\ \A m \in 1..(k - 1) : ~contains(text_lower, table[m][1])][2]
    ELSE ""

(***************************************************************************)
(* The movie-name rules of enhanced_extract_movie_info:                    *)
(*   re.findall(pattern, text, re.IGNORECASE)[0] for the first pattern     *)
(*   that matches at all.                                                  *)
(***************************************************************************)
Digits == {"0","1","2","3","4","5","6","7","8","9"}

\* \w
is_word_char(c) ==
    \/ \E k \in 1..Len(UpperCase) : c = UpperCase[k] \/ c = LowerCase[k]
    \/ c \in Digits
    \/ c = "_"

\* \s
is_space(c) == c \in {" ", "\t", "\n", "\r"}

\* (?:movie|film|trailer|teaser)
movie_suffixes ==
    << <<"m","o","v","i","e">>,
       <<"f","i","l","m">>,
       <<"t","r","a","i","l","e","r">>,
       <<"t","e","a","s","e","r">> >>

SetMin(S) == CHOOSE x \in S : \A y \in S : x <= y

SetMax(S) == CHOOSE x \in S : \A y \in S : y <= x

\* text[p .. p+n-1] is a run of n >= 1 word characters
word_run(text, p, n) ==
    /\ n >= 1
    /\ p >= 1
    /\ p + n - 1 <= Len(text)
    /\ \A k \in p..(p + n - 1) : is_word_char(text[k])

\* one of the suffix alternatives matches at position p, ignoring case
suffix_at(text, p) ==
    \E s \in 1..Len(movie_suffixes) :
        /\ p >= 1
        /\ p + Len(movie_suffixes[s]) - 1 <= Len(text)
        /\ \A k \in 1..Len(movie_suffixes[s]) :
               lower_char(text[p + k - 1]) = movie_suffixes[s][k]

\* r'#(\w+)(?:movie|film|trailer|teaser)': the lengths \w+ can take at a '#'
hashtag_lengths(text, p) ==
    { n \in 1..Len(text) : word_run(text, p + 1, n) /\ suffix_at(text, p + 1 + n) }

hashtag_rule(text) ==
    LET starts == { p \in 1..Len(text) :
                        text[p] = "#" /\ hashtag_lengths(text, p) # {} }
    IN  IF starts = {} THEN <<>>
        ELSE LET p == SetMin(starts)
             IN  SubSeq(text, p + 1, p + SetMax(hashtag_lengths(text, p)))

\* r'(\w+)\s+(?:movie|film|trailer|teaser)': <<n, w>> = lengths of \w+ and \s+
word_rule_lengths(text, p) ==
    UNION { { <<n, w>> : w \in { w \in 1..(Len(text) - p - n + 1) :
                                    /\ \A k \in (p + n)..(p + n + w - 1) : is_space(text[k])
                                    /\ suffix_at(text, p + n + w) } } :
            n \in { n \in 1..(Len(text) - p + 1) : word_run(text, p, n) } }

word_rule(text) ==
    LET starts == { p \in 1..Len(text) : word_rule_lengths(text, p) # {} }
    IN  IF starts = {} THEN <<>>
        ELSE LET p == SetMin(starts)
                 n == SetMax({ nw[1] : nw \in word_rule_lengths(text, p) })
             IN  SubSeq(text, p, p + n - 1)

\* r'"([^"]+)"' and r"'([^']+)'": q is the quote character
quoted_ends(text, q, p) ==
    { e \in (p + 2)..Len(text) :
          /\ text[e] = q
          /\ \A k \in (p + 1)..(e - 1) : text[k] # q }

quoted_rule(text, q) ==
    LET starts == { p \in 1..Len(text) :
                        text[p] = q /\ quoted_ends(text, q, p) # {} }
    IN  IF starts = {} THEN <<>>
        ELSE LET p == SetMin(starts)
             IN  SubSeq(text, p + 1, SetMax(quoted_ends(text, q, p)) - 1)

\* for pattern in movie_patterns: matches = findall(..); if matches: ...; break
first_movie_name(text) ==
    IF hashtag_rule(text) # <<>> THEN hashtag_rule(text)
    ELSE IF word_rule(text) # <<>> THEN word_rule(text)
    ELSE IF quoted_rule(text, "\"") # <<>> THEN quoted_rule(text, "\"")
    ELSE quoted_rule(text, "'")

(***************************************************************************)
(* enhanced_extract_movie_info: the classifier used by                     *)
(* monitor_instagram_enhanced and monitor_youtube_enhanced.                *)
(***************************************************************************)
\* a cascade that tries box office before trailer and tamil before telugu
enhanced_box_office_first(text) ==
    CHOOSE info \in {
          [ movie_name |-> first_movie_name(text),
            actor_name |-> first_table_match(telugu_actors, t),
            director_name |-> first_table_match(directors, t),
            production_house |-> first_table_match(production_houses, t),
            update_type |->
                IF any_word_in(ekw_box_office, t) THEN "box_office"
                ELSE IF any_word_in(ekw_trailer, t) THEN "trailer"
                ELSE IF any_word_in(ekw_teaser, t) THEN "teaser"
                ELSE IF any_word_in(ekw_poster, t) THEN "poster"
                ELSE IF any_word_in(ekw_announcement, t) THEN "announcement"
                ELSE IF any_word_in(ekw_review, t) THEN "review"
                ELSE "news",
            language |->
                IF any_word_in(ekw_tamil, t) THEN "tamil"
                ELSE IF any_word_in(ekw_telugu, t) THEN "telugu"
                ELSE IF any_word_in(ekw_hindi, t) THEN "hindi"
                ELSE IF any_word_in(ekw_malayalam, t) THEN "malayalam"
                ELSE IF any_word_in(ekw_kannada, t) THEN "kannada"
                ELSE "" ] : t \in {lower(text)} } : TRUE

\* enhanced_extract_movie_info(text), lines 951-1068
enhanced_extract_movie_info(text) ==
    CHOOSE info \in {
          [ movie_name |-> first_movie_name(text),
            actor_name |-> first_table_match(telugu_actors, t),
            director_name |-> first_table_match(directors, t),
            production_house |-> first_table_match(production_houses, t),
            update_type |->
                IF any_word_in(ekw_trailer, t) THEN "trailer"
                ELSE IF any_word_in(ekw_teaser, t) THEN "teaser"
                ELSE IF any_word_in(ekw_poster, t) THEN "poster"
                ELSE IF any_word_in(ekw_announcement, t) THEN "announcement"
                ELSE IF any_word_in(ekw_box_office, t) THEN "box_office"
                ELSE IF any_word_in(ekw_review, t) THEN "review"
                ELSE "news",
            language |->
                IF any_word_in(ekw_telugu, t) THEN "telugu"
                ELSE IF any_word_in(ekw_tamil, t) THEN "tamil"
                ELSE IF any_word_in(ekw_hindi, t) THEN "hindi"
                ELSE IF any_word_in(ekw_malayalam, t) THEN "malayalam"
                ELSE IF any_word_in(ekw_kannada, t) THEN "kannada"
                ELSE "" ] : t \in {lower(text)} } : TRUE

(***************************************************************************)
(* The movie_updates table and DatabaseManager.save_movie_update.          *)
(***************************************************************************)
\* Python's None as a return value of save_movie_update
NoneId == 0 - 1

\* `if update_id and ...`: None and 0 are falsy
truthy(update_id) == update_id # NoneId /\ update_id # 0

\* a lookup that finds no keyword argument
kwargs_missing(kwargs, key, default) == default

\* kwargs.get(key, default)
kwargs_get(kwargs, key, default) ==
    IF key \in DOMAIN kwargs THEN kwargs[key] ELSE default

\* a constraint on the content id alone
same_content_id(row, platform, content_id) == row.content_id = content_id

\* the columns of the UNIQUE(platform, content_id) constraint
same_key(row, platform, content_id) ==
    row.platform = platform /\ row.content_id = content_id

\* a table created without the UNIQUE constraint: no insert ever conflicts
no_unique_constraint(table, platform, content_id) == FALSE

\* the UNIQUE(platform, content_id) constraint of the table
unique_conflict(table, platform, content_id) ==
    \E r \in 1..Len(table) : same_key(table[r], platform, content_id)

\* INSERT OR REPLACE: the conflicting row is replaced by the new one
insert_or_replace(table, row) ==
    IF unique_conflict(table, row.platform, row.content_id)
    THEN [r \in 1..Len(table) |->
             IF table[r].platform = row.platform
                /\ table[r].content_id = row.content_id
             THEN [row EXCEPT !.id = table[r].id]
             ELSE table[r]]
    ELSE Append(table, [row EXCEPT !.id = Len(table) + 1])

\* INSERT OR IGNORE INTO movie_updates ...; id is AUTOINCREMENT, rows are
\* never deleted, created_at is the insertion order
insert_or_ignore(table, row) ==
    IF unique_conflict(table, row.platform, row.content_id)
    THEN table
    ELSE Append(table, [row EXCEPT !.id = Len(table) + 1])

\* the row the INSERT statement of save_movie_update builds
movie_update_row(platform, account_name, content_id, title, content, url, kwargs) ==
    [ id |-> 0,
      platform |-> platform,
      account_name |-> account_name,
      content_id |-> content_id,
      title |-> title,
      content |-> content,
      url |-> url,
      language |-> kwargs_get(kwargs, "language", ""),
      movie_name |-> kwargs_get(kwargs, "movie_name", <<>>),
      actor_name |-> kwargs_get(kwargs, "actor_name", ""),
      director_name |-> kwargs_get(kwargs, "director_name", ""),
      production_house |-> kwargs_get(kwargs, "production_house", ""),
      update_type |-> kwargs_get(kwargs, "update_type", ""),
      engagement_count |-> kwargs_get(kwargs, "engagement_count", 0),
      posted_to_telegram |-> FALSE ]

\* a save that returns the id of the row holding the key when it inserted it
save_returning_rowid(table, row) ==
    [ table |-> insert_or_ignore(table, row),
      update_id |-> IF unique_conflict(table, row.platform, row.content_id)
                    THEN 0
                    ELSE Len(table) + 1,
      error_logged |-> FALSE ]

\* save_movie_update: the INSERT is committed, then `conn.lastrowid` is
\* evaluated on the sqlite3.Connection, which has no such attribute; the
\* AttributeError is caught by `except Exception`, logged as an error, and
\* None is returned, whether or not a row was inserted.
save_movie_update(table, row) ==
    [ table |-> insert_or_ignore(table, row),
      update_id |-> NoneId,
      error_logged |-> TRUE ]

(***************************************************************************)
(* Platforms, loop functions and the accounts they iterate.                *)
(***************************************************************************)
Platforms == {"twitter", "instagram", "youtube", "news"}

\* the thread targets of start_monitoring, in spawn order
start_monitoring_targets ==
    << <<"twitter", "monitor_twitter">>,
       <<"instagram", "monitor_instagram">>,
       <<"youtube", "monitor_youtube">> >>

\* the thread targets of start_monitoring_updated, in spawn order
start_monitoring_updated_targets ==
    << <<"twitter", "monitor_twitter">>,
       <<"instagram", "monitor_instagram_enhanced">>,
       <<"youtube", "monitor_youtube_enhanced">>,
       <<"news", "monitor_news_websites">> >>

Handlers == {"start_monitoring", "start_monitoring_updated"}

handler_targets(h) ==
    IF h = "start_monitoring" THEN start_monitoring_targets
    ELSE start_monitoring_updated_targets

Targets ==
    {"monitor_twitter", "monitor_instagram", "monitor_youtube",
     "monitor_instagram_enhanced", "monitor_youtube_enhanced",
     "monitor_news_websites"}

\* platform="..." argument each loop passes to save_movie_update
platform_of(target) ==
    CASE target = "monitor_twitter" -> "twitter"
      [] target \in {"monitor_instagram", "monitor_instagram_enhanced"} -> "instagram"
      [] target \in {"monitor_youtube", "monitor_youtube_enhanced"} -> "youtube"
      [] target = "monitor_news_websites" -> "news"

\* _populate_default_accounts: the seeded rows, in the order of
\* get_active_accounts (ORDER BY account_type, name), per platform
default_accounts ==
    << [name |-> "Allu Arjun", platform |-> "twitter", username |-> "alluarjun",
        account_type |-> "actor", language |-> "telugu"],
       [name |-> "Rashmika Mandanna", platform |-> "twitter", username |-> "iamRashmika",
        account_type |-> "actor", language |-> "multi"],
       [name |-> "Geetha Arts", platform |-> "twitter", username |-> "GeethaArts",
        account_type |-> "production_house", language |-> "telugu"],
       [name |-> "Allu Arjun", platform |-> "instagram", username |-> "alluarjunonline",
        account_type |-> "actor", language |-> "telugu"],
       [name |-> "Rashmika Mandanna", platform |-> "instagram", username |-> "rashmika_mandanna",
        account_type |-> "actor", language |-> "multi"],
       [name |-> "Geetha Arts", platform |-> "instagram", username |-> "geethaarts",
        account_type |-> "production_house", language |-> "telugu"] >>

\* the seeded rows the model keeps: the first NumSources of each platform
seeded_accounts ==
    LET kept(m) ==
            Cardinality({ k \in 1..(m - 1) :
                default_accounts[k].platform = default_accounts[m].platform })
                < NumSources
    IN  SelectSeq(default_accounts,
                  LAMBDA a : \E m \in 1..Len(default_accounts) :
                                 default_accounts[m] = a /\ kept(m))

\* a read of the accounts of a platform, active or not
get_accounts(accounts, platform) ==
    SelectSeq(accounts, LAMBDA a : a.platform = platform)

\* get_active_accounts(platform): WHERE is_active AND platform = ?
get_active_accounts(accounts, platform) ==
    SelectSeq(accounts, LAMBDA a : a.is_active /\ a.platform = platform)

\* telugu_channels of monitor_youtube_enhanced
telugu_channels ==
    <<"UCaayLD9i5x4MmIoVZxXSv_g", "UCjvgGbPPn-FgYeguc5nxG4A",
      "UCsKVlYTrvddO4kZJYUFtA6Q", "UCM7-2cDXfBiZYXm_WfMGS_g">>

\* lengths of the search_queries lists and of news_sources
monitor_youtube_queries == 7

monitor_youtube_enhanced_queries == 6

news_sources == 5

Min2(a, b) == IF a < b THEN a ELSE b

\* number of passes of one batch: monitor_youtube_enhanced iterates the
\* channels and then the search queries
passes(target) == IF target = "monitor_youtube_enhanced" THEN 2 ELSE 1

\* number of iterations of the `for` loop of a pass (cut at NumSources)
source_count(target, pass, accounts) ==
    CASE target \in {"monitor_twitter", "monitor_instagram", "monitor_instagram_enhanced"}
             -> Len(accounts)
      [] target = "monitor_youtube" -> Min2(monitor_youtube_queries, NumSources)
      [] target = "monitor_youtube_enhanced" /\ pass = 1
             -> Min2(Len(telugu_channels), NumSources)
      [] target = "monitor_youtube_enhanced" /\ pass = 2
             -> Min2(monitor_youtube_enhanced_queries, NumSources)
      [] target = "monitor_news_websites" -> Min2(news_sources, NumSources)

(***************************************************************************)
(* What the remote services return.                                        *)
(***************************************************************************)
\* content ids (tweet.id, post['id'], videoId, last URL segment) as the
\* TEXT column stores them
ContentIds == {"101", "102"}

\* texts of the fetched items: a trailer, a text that only the enhanced
\* classifier files under announcement, and a text without any keyword
LoopTexts == {TextTrailer, TextOfficial, TextPlain}

\* age of a fetched item in hours
AgeHours == {1, 25}

\* like / view counts of a fetched item, around the thresholds of the loops
EngagementValues(target) ==
    CASE target = "monitor_twitter" -> {500, 501}
      [] target = "monitor_instagram_enhanced" -> {1000, 1001}
      [] target = "monitor_youtube_enhanced" -> {0, 1001}
      [] OTHER -> {0}

\* every item a remote service can return to a loop
AllItems(target) ==
    [ content_id : ContentIds, text : LoopTexts,
      engagement : EngagementValues(target), age : AgeHours ]

\* the items with the given ids, for any loop
items_with(ids) ==
    { item \in UNION { AllItems(target) : target \in Targets } :
          item.content_id \in ids }

\* the items of a set that are one hour old
fresh(items) == { item \in items : item.age = 1 }

\* one fresh trailer per loop, at or under its engagement threshold
one_item_each ==
    { item \in items_with({"101"}) :
          item.text = TextTrailer /\ item.age = 1 /\ item.engagement \in {0, 500, 1000} }

\* what a request of a loop can return, out of the items the services hold
RawItems(target, held) == AllItems(target) \cap held

(***************************************************************************)
(* The per-item code of the loops.                                         *)
(***************************************************************************)
\* a loop that takes its client or key for granted
client_assumed(target, creds) == TRUE

\* client / credential test at the top of the batch loop
client_available(target, creds) ==
    CASE target = "monitor_twitter" -> creds.twitter_client
      [] target = "monitor_instagram" -> creds.instagram_token
      [] target = "monitor_instagram_enhanced" -> TRUE
      [] target \in {"monitor_youtube", "monitor_youtube_enhanced"} -> creds.youtube_client
      [] target = "monitor_news_websites" -> creds.news_api_key

\* whether the account iteration performs a remote fetch at all
fetch_attempted(target, creds) ==
    IF target = "monitor_instagram_enhanced" THEN creds.instagram_token ELSE TRUE

\* timedelta(hours=...) of the loop's own recency test; 0: the loop has none
recency_window(target, pass) ==
    CASE target \in {"monitor_twitter", "monitor_instagram"} -> 24
      [] target = "monitor_instagram_enhanced" -> 12
      [] target = "monitor_youtube_enhanced" /\ pass = 1 -> 6
      [] OTHER -> 0

\* a loop without a recency test
never_skipped(target, pass, item) == FALSE

\* `if created_at < now - timedelta(hours=w): continue`, and the empty
\* caption test of monitor_instagram_enhanced
skipped(target, pass, item) ==
    \/ recency_window(target, pass) # 0 /\ item.age > recency_window(target, pass)
    \/ target = "monitor_instagram_enhanced" /\ item.text = <<>>

\* the annotations of the texts the remote services return, computed once
extract_movie_info_of == [text \in LoopTexts |-> extract_movie_info(text)]

enhanced_extract_movie_info_of ==
    [text \in LoopTexts |-> enhanced_extract_movie_info(text)]

\* movie_info = extract_movie_info(...) / enhanced_extract_movie_info(...)
classify(target, text) ==
    IF target \in {"monitor_instagram_enhanced", "monitor_youtube_enhanced"}
    THEN enhanced_extract_movie_info_of[text]
    ELSE extract_movie_info_of[text]

\* `a or b` on strings
str_or(a, b) == IF a # "" THEN a ELSE b

\* the arguments of the save_movie_update call of each loop
call_arguments(target, pass, account, item, info) ==
    CASE target = "monitor_twitter" ->
             movie_update_row("twitter", account.name, item.content_id,
                 <<"Tweet by ", account.name>>, item.text,
                 <<"https://twitter.com/", account.username, "/status/", item.content_id>>,
                 [language |-> str_or(info.language, account.language),
                  movie_name |-> info.movie_name,
                  actor_name |-> info.actor_name,
                  update_type |-> info.update_type,
                  engagement_count |-> item.engagement])
      [] target = "monitor_instagram" ->
             movie_update_row("instagram", account.name, item.content_id,
                 <<"Instagram post by ", account.name>>, item.text,
                 <<"permalink", item.content_id>>,
                 [language |-> str_or(info.language, account.language),
                  movie_name |-> info.movie_name,
                  update_type |-> info.update_type])
      [] target = "monitor_instagram_enhanced" ->
             movie_update_row("instagram", account.name, item.content_id,
                 <<"Instagram post by ", account.name>>, item.text,
                 <<"permalink", item.content_id>>,
                 [language |-> str_or(info.language, account.language),
                  movie_name |-> info.movie_name,
                  actor_name |-> info.actor_name,
                  director_name |-> info.director_name,
                  production_house |-> info.production_house,
                  update_type |-> info.update_type,
                  engagement_count |-> item.engagement])
      [] target = "monitor_youtube" ->
             movie_update_row("youtube", "channelTitle", item.content_id,
                 item.text, <<>>,
                 <<"https://www.youtube.com/watch?v=", item.content_id>>,
                 [language |-> info.language,
                  movie_name |-> info.movie_name,
                  update_type |-> info.update_type])
      [] target = "monitor_youtube_enhanced" /\ pass = 1 ->
             movie_update_row("youtube", "channelTitle", item.content_id,
                 item.text, <<>>,
                 <<"https://www.youtube.com/watch?v=", item.content_id>>,
                 [language |-> str_or(info.language, "telugu"),
                  movie_name |-> info.movie_name,
                  actor_name |-> info.actor_name,
                  director_name |-> info.director_name,
                  production_house |-> info.production_house,
                  update_type |-> info.update_type,
                  engagement_count |-> item.engagement])
      [] target = "monitor_youtube_enhanced" /\ pass = 2 ->
             movie_update_row("youtube", "channelTitle", item.content_id,
                 item.text, <<>>,
                 <<"https://www.youtube.com/watch?v=", item.content_id>>,
                 [language |-> info.language,
                  movie_name |-> info.movie_name,
                  actor_name |-> info.actor_name,
                  update_type |-> info.update_type])
      [] target = "monitor_news_websites" ->
             movie_update_row("news", "source", item.content_id,
                 item.text, <<>>, <<"url", item.content_id>>,
                 [language |-> info.language,
                  movie_name |-> info.movie_name,
                  update_type |-> info.update_type])

\* movie_info = <classifier>(text), then the save_movie_update call
save_row(target, pass, account, item) ==
    call_arguments(target, pass, account, item, classify(target, item.text))

AlwaysRelay == {"trailer", "teaser", "poster"}

\* a decision that ignores the result of the save
should_notify_any_save(target, pass, update_id, update_type, engagement) ==
    CASE target = "monitor_twitter" ->
             update_type \in AlwaysRelay \/ engagement > 500
      [] target = "monitor_instagram" -> update_type \in AlwaysRelay
      [] target = "monitor_instagram_enhanced" ->
             update_type \in (AlwaysRelay \cup {"announcement"}) \/ engagement > 1000
      [] target = "monitor_youtube" -> update_type \in {"trailer", "teaser"}
      [] target = "monitor_youtube_enhanced" /\ pass = 1 -> update_type \in AlwaysRelay
      [] OTHER -> FALSE

\* the `if update_id and (...)` test in front of send_telegram_notification;
\* the search pass of monitor_youtube_enhanced and monitor_news_websites
\* discard the result of the save and have no notification code
should_notify(target, pass, update_id, update_type, engagement) ==
    CASE target = "monitor_twitter" ->
             truthy(update_id) /\ (update_type \in AlwaysRelay \/ engagement > 500)
      [] target = "monitor_instagram" ->
             truthy(update_id) /\ update_type \in AlwaysRelay
      [] target = "monitor_instagram_enhanced" ->
             truthy(update_id)
             /\ (update_type \in (AlwaysRelay \cup {"announcement"}) \/ engagement > 1000)
      [] target = "monitor_youtube" ->
             truthy(update_id) /\ update_type \in {"trailer", "teaser"}
      [] target = "monitor_youtube_enhanced" /\ pass = 1 ->
             truthy(update_id) /\ update_type \in AlwaysRelay
      [] OTHER -> FALSE

(***************************************************************************)
(* State.                                                                  *)
(***************************************************************************)
VARIABLES
    monitoring_active,    \* the global run-flag
    scheduled,            \* loop functions whose threads the model runs
    monitoring_threads,   \* scheduled platform -> start call whose Thread the
                          \* dict holds under that key, 0: no entry
    generation,           \* number of start calls that spawned threads
    threads,              \* the started threads of the scheduled loops
    movie_updates,        \* rows of the movie_updates table, in insertion order
    social_accounts,      \* rows of the social_accounts table
    account_seq,          \* the largest id the social_accounts table has given
                          \* out (AUTOINCREMENT)
    credentials,          \* which clients / keys initialize_apis and Config found
    served,               \* the items the remote services hold
    starting,             \* handler -> start requests past the run-flag test
    response,             \* the last control call: its answer, and whether it
                          \* called send_telegram_notification
    telegram,             \* key -> send_telegram_notification calls of the loops
                          \* for that record (saturating)
    last_save,            \* the last save_movie_update call and its outcome
    inserted_reports,     \* key -> calls that returned a truthy id (saturating)
    first_saved,          \* key -> the row built by the first save call
    classified,           \* the last classifier call: function, text, result
    created_at,           \* created_at column of movie_updates, row by row
    clock,                \* CURRENT_TIMESTAMP, in seconds
    listing,              \* the last answer of /api/updates
    handled,              \* the last fetched item a loop took up, and what
                          \* the loop did with it
    telegram_service,     \* whether TELEGRAM_BOT_TOKEN and TELEGRAM_CHANNEL_ID
                          \* are set, and how the Bot API can answer a post
    faulty,               \* the positions of a batch whose remote fetch raises;
                          \* 0: the read of the account list raises
    config_call,          \* the last call of Config.validate_config or
                          \* ConfigManager.get_config: arguments and result
    audited,              \* the start calls (by number) the log of whose
                          \* threads the model follows
    last_batch            \* the last batch pass that ran through its `for`
                          \* loops, as logged, and the sleep that followed it

vars ==
    <<monitoring_active, monitoring_threads, generation, scheduled, threads,
      movie_updates, social_accounts, credentials, served, starting,
      response, telegram, last_save, inserted_reports, first_saved,
      classified, created_at, clock, listing, handled, telegram_service,
      faulty, audited, config_call, account_seq, last_batch>>

\* what the control handlers, the loops and the gate never touch
call_vars ==
    <<classified, clock, listing, telegram_service, faulty, audited, config_call,
      account_seq>>

NoCall == [fn |-> "none"]

NoListing == [op |-> "none"]

NoItem == [target |-> "none"]

NoBatch == [target |-> "none"]

\* no fetch raises
NoFaults == {}

\* what requests.post(url, data=data, timeout=10) can come to
TransportOutcomes == {"200", "non200", "exception"}

\* a configured channel whose posts are all accepted
Delivering == [configured |-> TRUE, outcomes |-> {"200"}]

\* any configuration, and a Bot API that can answer in every way
AnyService == { [configured |-> c, outcomes |-> TransportOutcomes] : c \in BOOLEAN }

\* a sender without the try block
send_unguarded(configured, outcome) ==
    IF ~configured THEN "False"
    ELSE IF outcome = "exception" THEN "raised"
    ELSE IF outcome = "200" THEN "True"
    ELSE "False"

\* send_telegram_notification: "True" / "False" as returned; the except
\* clause turns every exception of the post into False
send_telegram_notification(configured, outcome) ==
    IF ~configured THEN "False"
    ELSE IF outcome = "exception" THEN "False"
    ELSE IF outcome = "200" THEN "True"
    ELSE "False"

\* what the post of a call came to; "none": the sender made no post
posted(configured, outcome) == IF configured THEN outcome ELSE "none"

\* the answer of a handler whose notification was sent with the result
\* delivered: an exception leaving the sender would leave the view too
answer(status, delivered) == IF delivered = "raised" THEN "error" ELSE status

Keys == Platforms \X ContentIds

NoRow == [id |-> 0]

NoSave == [target |-> "none"]

sat_inc(n) == Min2(n + 1, CountCap)

\* the stored row of a key, NoRow when there is none
stored_row(table, key) ==
    IF unique_conflict(table, key[1], key[2])
    THEN table[CHOOSE r \in 1..Len(table) :
                   table[r].platform = key[1] /\ table[r].content_id = key[2]]
    ELSE NoRow

\* a row without its id
fields_of(row) == [f \in (DOMAIN row) \ {"id"} |-> row[f]]

\* the credential a platform's loops test
credential_of(p) ==
    CASE p = "twitter" -> "twitter_client"
      [] p = "instagram" -> "instagram_token"
      [] p = "youtube" -> "youtube_client"
      [] p = "news" -> "news_api_key"

\* the model runs the loops of one platform at a time, with or without
\* its credential; the threads of the other platforms are started but
\* take no step
ScheduledSets == { { target \in Targets : platform_of(target) = p } : p \in Platforms }

\* the platforms of the scheduled loop functions
scheduled_platforms == { platform_of(target) : target \in scheduled }

InitialAccounts ==
    [k \in 1..Len(seeded_accounts) |->
        [id |-> k, name |-> seeded_accounts[k].name,
         platform |-> seeded_accounts[k].platform,
         username |-> seeded_accounts[k].username,
         account_type |-> seeded_accounts[k].account_type,
         language |-> seeded_accounts[k].language,
         is_active |-> TRUE]]

\* the state after import of the module, with the remote services holding
\* the items `held`
InitWith(sets, held, services, accounts, faults, followed) ==
    /\ monitoring_active = FALSE
    /\ scheduled \in sets
    /\ monitoring_threads = [p \in scheduled_platforms |-> 0]
    /\ generation = 0
    /\ threads = <<>>
    /\ movie_updates = <<>>
    /\ social_accounts = accounts
    /\ account_seq = Len(accounts)
    /\ \E have \in SUBSET scheduled_platforms :
           credentials = [c \in {credential_of(p) : p \in Platforms} |->
                             \E p \in have : credential_of(p) = c]
    /\ served = held
    /\ starting = [h \in Handlers |-> 0]
    /\ response = [op |-> "none", status |-> "none", notified |-> FALSE,
                   delivered |-> "none", outcome |-> "none"]
    /\ telegram = [k \in Keys |-> 0]
    /\ last_save = NoSave
    /\ inserted_reports = [k \in Keys |-> 0]
    /\ first_saved = [k \in Keys |-> NoRow]
    /\ classified = NoCall
    /\ created_at = <<>>
    /\ clock = 0
    /\ listing = NoListing
    /\ handled = NoItem
    /\ telegram_service \in services
    /\ faulty \in faults
    /\ audited = followed
    /\ config_call = NoCall
    /\ last_batch = NoBatch

\* the seeded accounts, remote services whose fetches do not raise, and no
\* log followed
InitServing(sets, held, services) ==
    InitWith(sets, held, services, InitialAccounts, {NoFaults}, {})

Init == InitServing(ScheduledSets, items_with({"101"}), {Delivering})

(***************************************************************************)
(* Control handlers.                                                       *)
(***************************************************************************)
starts_in_flight == starting["start_monitoring"] + starting["start_monitoring_updated"]

new_thread(gen, platform, target) ==
    [gen |-> gen, platform |-> platform, target |-> target, pc |-> "top",
     accounts |-> <<>>, pass |-> 1, i |-> 0, j |-> 0,
     errors |-> 0, fetched |-> {}, raised |-> {}, paced |-> {}, broke |-> FALSE]

\* the entries of a handler's target list whose threads the model runs
scheduled_targets(h) ==
    SelectSeq(handler_targets(h), LAMBDA e : e[2] \in scheduled)

\* a handler that never finds the monitor running
never_running(flag) == FALSE

\* the `if monitoring_active:` test at the head of the start handlers
already_running(flag) == flag

\* `if monitoring_active: return jsonify({'status': 'already_running'})`
start_check(h) ==
    /\ IF already_running(monitoring_active)
       THEN /\ response' = [op |-> "start_monitoring", status |-> "already_running",
                             notified |-> FALSE, delivered |-> "none",
                             outcome |-> "none"]
            /\ UNCHANGED starting
       ELSE /\ generation + starts_in_flight < MaxStarts
            /\ starting' = [starting EXCEPT ![h] = @ + 1]
            /\ UNCHANGED response
    /\ UNCHANGED call_vars
    /\ UNCHANGED <<created_at, handled, last_batch>>
    /\ UNCHANGED <<monitoring_active, monitoring_threads, generation, scheduled,
                   threads, movie_updates, social_accounts, credentials, served, telegram,
                   last_save, inserted_reports, first_saved>>

\* the rest of the handler: set the flag, start one thread per target,
\* send the start notification, answer 'started'
start_spawn(h) ==
    /\ starting[h] > 0
    /\ starting' = [starting EXCEPT ![h] = @ - 1]
    /\ monitoring_active' = TRUE
    /\ generation' = generation + 1
    /\ threads' = threads \o [k \in 1..Len(scheduled_targets(h)) |->
                                 new_thread(generation + 1, scheduled_targets(h)[k][1],
                                            scheduled_targets(h)[k][2])]
    /\ monitoring_threads' =
           [p \in scheduled_platforms |->
               IF \E k \in 1..Len(handler_targets(h)) : handler_targets(h)[k][1] = p
               THEN generation + 1
               ELSE monitoring_threads[p]]
    /\ \E outcome \in telegram_service.outcomes :
       \E delivered \in {send_telegram_notification(telegram_service.configured,
                                                    outcome)} :
           response' = [op |-> "start_monitoring", status |-> answer("started", delivered),
                        notified |-> TRUE, delivered |-> delivered,
                        outcome |-> posted(telegram_service.configured, outcome)]
    /\ UNCHANGED call_vars
    /\ UNCHANGED <<created_at, handled, last_batch>>
    /\ UNCHANGED <<telegram, scheduled, movie_updates, social_accounts, credentials, served,
                   last_save, inserted_reports, first_saved>>

start_monitoring == start_check("start_monitoring") \/ start_spawn("start_monitoring")

start_monitoring_updated ==
    start_check("start_monitoring_updated") \/ start_spawn("start_monitoring_updated")

stop_monitoring ==
    /\ monitoring_active' = FALSE
    /\ \E outcome \in telegram_service.outcomes :
       \E delivered \in {send_telegram_notification(telegram_service.configured,
                                                    outcome)} :
           response' = [op |-> "stop_monitoring", status |-> answer("stopped", delivered),
                        notified |-> TRUE, delivered |-> delivered,
                        outcome |-> posted(telegram_service.configured, outcome)]
    /\ UNCHANGED call_vars
    /\ UNCHANGED <<created_at, handled, last_batch>>
    /\ UNCHANGED <<telegram, monitoring_threads, generation, scheduled, threads,
                   movie_updates, social_accounts, credentials, served, starting,
                   last_save, inserted_reports, first_saved>>

(***************************************************************************)
(* The poller loops, one step per check point.                             *)
(***************************************************************************)
\* a loop that clears the run-flag in its step
flag_cleared(flag) == FALSE

\* monitoring_active after a step of a loop: the loop functions declare it
\* global and read it, none assigns it
flag_kept(flag) == flag

\* a loop that never sees the run-flag cleared
flag_ignored(flag) == TRUE

\* the value of monitoring_active as the loop reads it at a check point
flag_read(flag) == flag

\* the end of a `for` loop: next pass, or the end of the batch (event log,
\* interval or backoff sleep) and back to the `while`
RECURSIVE enter_pass(_, _)
enter_pass(th, pass) ==
    IF pass > passes(th.target)
    THEN [th EXCEPT !.pc = "top", !.pass = 1, !.i = 0, !.j = 0, !.accounts = <<>>]
    ELSE IF source_count(th.target, pass, th.accounts) = 0
    THEN enter_pass(th, pass + 1)
    ELSE [th EXCEPT !.pc = "acct", !.pass = pass, !.i = 1, !.j = 0]

\* the end of one iteration: the next one, or the end of the `for` loop
next_source(th) ==
    IF th.i < source_count(th.target, th.pass, th.accounts)
    THEN [th EXCEPT !.pc = "acct", !.i = @ + 1, !.j = 0]
    ELSE enter_pass(th, th.pass + 1)

\* time.sleep(60) of the outer `except Exception`
backoff_seconds == 60

\* time.sleep(Config.<PLATFORM>_INTERVAL * 60) with the default intervals
interval_seconds(target) ==
    CASE target = "monitor_twitter" -> 10 * 60
      [] target \in {"monitor_instagram", "monitor_instagram_enhanced"} -> 30 * 60
      [] target \in {"monitor_youtube", "monitor_youtube_enhanced"} -> 20 * 60
      [] target = "monitor_news_websites" -> 30 * 60

\* loops whose batch starts with db_manager.get_active_accounts(platform)
reads_accounts(target) ==
    target \in {"monitor_twitter", "monitor_instagram", "monitor_instagram_enhanced"}

\* db_manager.log_monitoring_event(...) after the `for` loop of
\* monitor_twitter: db_manager was created from the first DatabaseManager
\* class, which has no such method, so the call raises AttributeError
event_log_raises(target) == target = "monitor_twitter"

\* the position of the current iteration in its batch
position(th) == <<th.pass, th.i>>

\* a handler that lets the exception end the thread
exit_on_exception(th) == [th EXCEPT !.pc = "done"]

\* the outer `except Exception`: log the error, sleep 60 s, back to `while`
retry_batch(th) == [th EXCEPT !.pc = "top"]

\* the counters of the batch in progress, at the start of a batch
clear_batch(th) ==
    [th EXCEPT !.errors = 0, !.fetched = {}, !.raised = {}, !.paced = {},
               !.broke = FALSE]

\* what the log shows of a batch over n accounts that ran through its `for`
\* loops, and the sleep after it
batch_record(th, n) ==
    [target |-> th.target,
     accounts |-> n,
     fetched |-> th.fetched,
     raised |-> th.raised,
     paced |-> th.paced,
     errors |-> IF event_log_raises(th.target) THEN sat_inc(th.errors) ELSE th.errors,
     ended |-> IF event_log_raises(th.target) THEN "exception" ELSE "completed",
     pause |-> IF event_log_raises(th.target)
               THEN backoff_seconds
               ELSE interval_seconds(th.target)]

\* the batch record of a read of the account list that raised
failed_read_record(th) ==
    [target |-> th.target, accounts |-> 0, fetched |-> {}, raised |-> {},
     paced |-> {}, errors |-> 1, ended |-> "exception", pause |-> backoff_seconds]

\* the record of a pass that found its client or key missing:
\* `time.sleep(60); continue`
unavailable_record(th) ==
    [target |-> th.target, accounts |-> 0, fetched |-> {}, raised |-> {},
     paced |-> {}, errors |-> 0, ended |-> "unavailable", pause |-> backoff_seconds]

\* loops whose user lookup can come back without data:
\* `if not user.data: continue`
looks_up_user(target) == target = "monitor_twitter"

\* the thread after the `time.sleep(...)  # Rate limiting` that ends the
\* `try` block of the current iteration
pace(th) == [th EXCEPT !.paced = @ \cup {position(th)}]

\* the thread after a step that left it as nt: at the end of the batch the
\* event is logged where the loop does so, and the thread sleeps
after_step(nt) ==
    IF nt.pc # "top" THEN (IF nt.gen \in audited THEN nt ELSE clear_batch(nt))
    ELSE IF event_log_raises(nt.target) THEN retry_batch(clear_batch(nt))
    ELSE clear_batch(nt)

\* last_batch after the step that took the thread from th to nt
batch_after(th, nt) ==
    IF nt.gen \in audited /\ nt.pc = "top" /\ ~nt.broke
    THEN batch_record(nt, Len(th.accounts))
    ELSE last_batch

\* `while monitoring_active:`, the client test under it, and the read of
\* the active account list
loop_top(t) ==
    /\ threads[t].pc = "top"
    /\ IF ~flag_read(monitoring_active)
       THEN /\ threads' = [threads EXCEPT ![t].pc = "done"]
            /\ UNCHANGED last_batch
       ELSE IF ~client_available(threads[t].target, credentials)
       THEN /\ UNCHANGED threads
            /\ last_batch' = IF threads[t].gen \in audited
                             THEN unavailable_record(threads[t])
                             ELSE last_batch
       ELSE IF reads_accounts(threads[t].target) /\ 0 \in faulty
       THEN /\ threads' = [threads EXCEPT ![t] = retry_batch(threads[t])]
            /\ last_batch' = IF threads[t].gen \in audited
                             THEN failed_read_record(threads[t])
                             ELSE last_batch
       ELSE \E th \in {[threads[t] EXCEPT !.accounts =
                          IF reads_accounts(threads[t].target)
                          THEN get_active_accounts(social_accounts, threads[t].platform)
                          ELSE <<>>]} :
            \E nt \in {enter_pass(th, 1)} :
                /\ threads' = [threads EXCEPT ![t] = after_step(nt)]
                /\ last_batch' = batch_after(th, nt)
    /\ monitoring_active' = flag_kept(monitoring_active)
    /\ UNCHANGED call_vars
    /\ UNCHANGED <<created_at, handled>>
    /\ UNCHANGED <<monitoring_threads, generation, scheduled,
                   movie_updates, social_accounts, credentials, served, starting,
                   response, telegram, last_save, inserted_reports,
                   first_saved>>

\* one iteration head: `if not monitoring_active: break`, then the fetch,
\* which raises (inner `except`: log, continue), finds no user (continue),
\* returns nothing, or returns 1..MaxItems items
account_step(t) ==
    LET th == threads[t] IN
    /\ th.pc = "acct"
    /\ \E nt \in
           IF ~flag_read(monitoring_active)
           THEN {enter_pass([th EXCEPT !.broke = TRUE], th.pass + 1)}
           ELSE IF ~fetch_attempted(th.target, credentials)
           THEN {next_source(pace(th))}
           ELSE IF th.i \in faulty
           THEN {next_source([th EXCEPT !.raised = @ \cup {position(th)},
                                        !.errors = sat_inc(@)])}
           ELSE {next_source(pace([th EXCEPT !.fetched = @ \cup {position(th)}]))}
                \cup { next_source([th EXCEPT !.fetched = @ \cup {position(th)}]) :
                           skip \in { x \in {TRUE} : looks_up_user(th.target) } }
                \cup { [th EXCEPT !.pc = "item", !.j = n,
                                  !.fetched = @ \cup {position(th)}] : n \in 1..MaxItems } :
           /\ threads' = [threads EXCEPT ![t] = after_step(nt)]
           /\ last_batch' = batch_after(th, nt)
    /\ monitoring_active' = flag_kept(monitoring_active)
    /\ UNCHANGED call_vars
    /\ UNCHANGED <<created_at, handled>>
    /\ UNCHANGED <<monitoring_threads, generation, scheduled,
                   movie_updates, social_accounts, credentials, served, starting,
                   response, telegram, last_save, inserted_reports,
                   first_saved>>

NoAccount == [name |-> "", username |-> "", language |-> ""]

\* the account of the current iteration (loops without accounts: a stub)
current_account(th) ==
    IF th.target \in {"monitor_twitter", "monitor_instagram", "monitor_instagram_enhanced"}
    THEN th.accounts[th.i]
    ELSE NoAccount

\* the body of the `for` over the fetched items, for one item: recency
\* test, classify, save, notification decision
process_item(target, pass, account, item) ==
    IF skipped(target, pass, item)
    THEN /\ handled' = [target |-> target, age |-> item.age,
                         classified |-> FALSE, saved |-> FALSE, notified |-> FALSE,
                         delivered |-> "none"]
         /\ UNCHANGED <<movie_updates, created_at, telegram, last_save,
                        inserted_reports, first_saved>>
    ELSE \E row \in {save_row(target, pass, account, item)} :
         \E saved \in {save_movie_update(movie_updates, row)} :
         \E notify \in {should_notify(target, pass, saved.update_id,
                                      row.update_type, item.engagement)} :
         \E key \in {<<row.platform, row.content_id>>} :
         \E outcome \in telegram_service.outcomes :
             /\ handled' = [target |-> target, age |-> item.age,
                             classified |-> TRUE, saved |-> TRUE, notified |-> notify,
                             delivered |->
                                 IF notify
                                 THEN send_telegram_notification(
                                          telegram_service.configured, outcome)
                                 ELSE "none"]
             /\ movie_updates' = saved.table
             /\ created_at' = IF Len(saved.table) > Len(movie_updates)
                              THEN Append(created_at, clock)
                              ELSE created_at
             /\ telegram' = IF notify
                            THEN [telegram EXCEPT ![key] = sat_inc(@)]
                            ELSE telegram
             /\ last_save' =
                    [target |-> target, pass |-> pass, key |-> key,
                     existed |-> unique_conflict(movie_updates, key[1], key[2]),
                     same_fields |->
                         \E r \in 1..Len(movie_updates) :
                             fields_of(movie_updates[r]) = fields_of(row),
                     update_id |-> saved.update_id,
                     notified |-> notify]
             /\ inserted_reports' =
                    IF truthy(saved.update_id)
                    THEN [inserted_reports EXCEPT ![key] = sat_inc(@)]
                    ELSE inserted_reports
             /\ first_saved' =
                    IF first_saved[key] = NoRow
                    THEN [first_saved EXCEPT ![key] = fields_of(row)]
                    ELSE first_saved

\* the errors save_movie_update logs for one fetched item
save_errors(target, pass, account, item) ==
    IF skipped(target, pass, item) THEN 0
    ELSE IF save_movie_update(movie_updates,
                              save_row(target, pass, account, item)).error_logged
    THEN 1
    ELSE 0

\* one fetched item of the current iteration of thread t
item_step(t) ==
    LET th == threads[t] IN
    /\ th.pc = "item"
    /\ \E item \in RawItems(th.target, served) :
           /\ process_item(th.target, th.pass, current_account(th), item)
           /\ \E logged \in {IF th.gen \in audited
                              THEN th.errors + save_errors(th.target, th.pass,
                                                           current_account(th), item)
                              ELSE 0} :
              \E nt \in {IF th.j > 1
                         THEN [th EXCEPT !.j = @ - 1, !.errors = Min2(logged, CountCap)]
                         ELSE next_source(pace([th EXCEPT !.errors =
                                                    Min2(logged, CountCap)]))} :
                  /\ threads' = [threads EXCEPT ![t] = after_step(nt)]
                  /\ last_batch' = batch_after(th, nt)
    /\ monitoring_active' = flag_kept(monitoring_active)
    /\ UNCHANGED call_vars
    /\ UNCHANGED <<monitoring_threads, generation, scheduled,
                   social_accounts, credentials, served, starting, response>>

Next ==
    \/ start_monitoring
    \/ start_monitoring_updated
    \/ stop_monitoring
    \/ \E t \in 1..Len(threads) : loop_top(t)
    \/ \E t \in 1..Len(threads) : account_step(t)
    \/ \E t \in 1..Len(threads) : item_step(t)

Spec == Init /\ [][Next]_vars

(***************************************************************************)
(* Scheduling: every started thread that can take a step eventually takes  *)
(* one (sleeps end, remote calls return or time out).  The control calls   *)
(* are under no obligation.                                                *)
(***************************************************************************)
\* a start call spawns at most one thread per scheduled platform
MaxThreads ==
    MaxStarts * SetMax({ Cardinality({ platform_of(target) : target \in s }) :
                             s \in ScheduledSets })

thread_step(t) ==
    /\ t <= Len(threads)
    /\ (loop_top(t) \/ account_step(t) \/ item_step(t))

\* the control flow on its own: the threads of one loop function are
\* followed and every request returns the same item.  The loops act on each
\* other through the run flag and the table only, and no loop's control flow
\* reads the table.
ControlInit == InitServing({ {target} : target \in Targets }, one_item_each, {Delivering})

ControlSpec == ControlInit /\ [][Next]_vars

\* The control handlers and the twitter loop with any Telegram
\* configuration and any answer of the Bot API.
NotifyInit == InitServing({{"monitor_twitter"}}, one_item_each, AnyService)

NotifySpec == NotifyInit /\ [][Next]_vars

(***************************************************************************)
(* Exceptions in the batches: the loops of the first start call with their *)
(* log followed, three active twitter accounts, and remote services in     *)
(* which the second fetch of a batch fails, every fetch fails, the read of *)
(* the account list fails, or (news) nothing fails.                        *)
(***************************************************************************)
three_accounts ==
    [k \in 1..3 |->
        [id |-> k, name |-> default_accounts[k].name,
         platform |-> default_accounts[k].platform,
         username |-> default_accounts[k].username,
         account_type |-> default_accounts[k].account_type,
         language |-> default_accounts[k].language,
         is_active |-> TRUE]]

\* per loop function, the fetches that raise
BatchFaults(target) ==
    CASE target = "monitor_twitter" -> {{2}, {1, 2, 3}, {0}}
      [] target = "monitor_news_websites" -> {NoFaults, {1, 2, 3}}
      [] target = "monitor_youtube_enhanced" -> {{1, 2, 3}}

BatchInit ==
    \E target \in {"monitor_twitter", "monitor_news_websites",
                    "monitor_youtube_enhanced"} :
        InitWith({{target}}, one_item_each, {Delivering}, three_accounts,
                 BatchFaults(target), {1})

BatchSpec == BatchInit /\ [][Next]_vars

(***************************************************************************)
(* The batches of each loop function with the log of the first start call  *)
(* followed, with and without the credential of the loop.                  *)
(***************************************************************************)
FollowInit ==
    InitWith({ {target} : target \in Targets }, one_item_each, {Delivering},
             InitialAccounts, {NoFaults}, {1})

FollowSpec == FollowInit /\ [][Next]_vars

\* the same for loops whose credential is missing, beside a news loop that
\* has its key
IdleInit ==
    /\ FollowInit
    /\ \/ scheduled = {"monitor_news_websites"}
       \/ \A p \in scheduled_platforms : ~credentials[credential_of(p)]

IdleSpec == IdleInit /\ [][Next]_vars

LiveSpec ==
    ControlInit /\ [][Next]_vars /\ \A t \in 1..MaxThreads : WF_vars(thread_step(t))

(***************************************************************************)
(* The persistence gate on its own: the per-item code of any loop, called  *)
(* in any order for one platform with two content ids, or for two          *)
(* platforms with one content id.  The items are fresh ones: the loops     *)
(* drop the others before the gate is called.                              *)
(***************************************************************************)
GateInit ==
    /\ monitoring_active = FALSE
    /\ \E s \in SUBSET Platforms :
           /\ \/ Cardinality(s) = 1 /\ served = fresh(items_with(ContentIds))
              \/ Cardinality(s) = 2 /\ served = fresh(items_with({"101"}))
           /\ scheduled = { target \in Targets : platform_of(target) \in s }
           /\ monitoring_threads = [p \in s |-> 0]
           /\ credentials = [c \in {credential_of(p) : p \in Platforms} |->
                                \E p \in s : credential_of(p) = c]
    /\ generation = 0
    /\ threads = <<>>
    /\ movie_updates = <<>>
    /\ social_accounts = InitialAccounts
    /\ account_seq = Len(InitialAccounts)
    /\ starting = [h \in Handlers |-> 0]
    /\ response = [op |-> "none", status |-> "none", notified |-> FALSE,
                   delivered |-> "none", outcome |-> "none"]
    /\ telegram = [k \in Keys |-> 0]
    /\ last_save = NoSave
    /\ inserted_reports = [k \in Keys |-> 0]
    /\ first_saved = [k \in Keys |-> NoRow]
    /\ classified = NoCall
    /\ created_at = <<>>
    /\ clock = 0
    /\ listing = NoListing
    /\ handled = NoItem
    /\ telegram_service = Delivering
    /\ faulty = NoFaults
    /\ audited = {}
    /\ config_call = NoCall
    /\ last_batch = NoBatch

\* the accounts an iteration of the loop can be at
accounts_of(target) ==
    IF target \in {"monitor_twitter", "monitor_instagram", "monitor_instagram_enhanced"}
    THEN { social_accounts[k] : k \in { m \in 1..Len(social_accounts) :
               social_accounts[m].platform = platform_of(target) } }
    ELSE {NoAccount}

save_call ==
    /\ \E target \in Targets :
           /\ target \in scheduled
           /\ \E pass \in 1..passes(target) :
              \E account \in accounts_of(target) :
              \E item \in RawItems(target, served) :
                  process_item(target, pass, account, item)
    /\ UNCHANGED call_vars
    /\ UNCHANGED last_batch
    /\ UNCHANGED <<monitoring_active, monitoring_threads, generation, scheduled,
                   threads, social_accounts, credentials, served, starting,
                   response>>

GateNext == save_call

GateSpec == GateInit /\ [][GateNext]_vars

(***************************************************************************)
(* The recency test in front of the gate: the per-item code of the loops   *)
(* of one social platform, for fresh and old items of one content id.      *)
(***************************************************************************)
RecencyInit ==
    InitServing({ {target \in Targets : platform_of(target) = p} :
                      p \in {"twitter", "instagram"} },
                items_with({"101"}), {Delivering})

RecencySpec == RecencyInit /\ [][GateNext]_vars


(***************************************************************************)
(* The classifiers on their own: one call with any of the texts below.     *)
(***************************************************************************)
\* the scenario text of the hashtag rule
TextPushpa ==
    <<"P","u","s","h","p","a"," ","2"," ","o","f","f","i","c","i","a","l"," ",
      "t","r","a","i","l","e","r"," ","o","u","t"," ","n","o","w","!"," ",
      "#","P","u","s","h","p","a","M","o","v","i","e"," ",
      "t","e","l","u","g","u"," ","b","l","o","c","k","b","u","s","t","e","r">>

\* what a text says about the kind of update
type_phrases ==
    { <<>>,
      <<"O","f","f","i","c","i","a","l"," ","T","r","a","i","l","e","r">>,
      <<"g","l","i","m","p","s","e">>,
      <<"F","i","r","s","t"," ","L","o","o","k">>,
      <<"r","e","l","e","a","s","e"," ","d","a","t","e">>,
      <<"B","o","x"," ","O","f","f","i","c","e">>,
      <<"r","e","v","i","e","w">>,
      <<"b","o","x"," ","o","f","f","i","c","e"," ","o","f"," ","t","h","e"," ",
        "t","r","a","i","l","e","r">>,
      <<"r","a","t","i","n","g"," ","o","f"," ","t","h","e"," ","p","o","s","t","e","r">> }

\* what a text says about the language
language_phrases ==
    { <<>>,
      <<" ","T","e","l","u","g","u">>,
      <<" ","k","o","l","l","y","w","o","o","d">>,
      <<" ","t","a","m","i","l"," ","a","n","d"," ","t","e","l","u","g","u">>,
      <<" ","H","i","n","d","i">>,
      <<" ","k","e","r","a","l","a">>,
      <<" ","K","a","n","n","a","d","a"," ","h","i","n","d","i">> }

\* the people and houses a text names
name_phrases ==
    { <<>>,
      <<" ","r","a","m"," ","c","h","a","r","a","n"," ","a","n","d"," ","N","T","R">>,
      <<" ","P","r","a","b","h","a","s">>,
      <<" ","s","u","k","u","m","a","r"," ","r","a","j","a","m","o","u","l","i">>,
      <<" ","D","V","V"," ","E","n","t","e","r","t","a","i","n","m","e","n","t","s",
        " ","g","e","e","t","h","a"," ","a","r","t","s">> }

ClassifierTexts ==
    { a \o b \o c : a \in type_phrases, b \in language_phrases, c \in name_phrases }
        \cup {TextPushpa}

Classifiers == {"extract_movie_info", "enhanced_extract_movie_info"}

\* one call of a classifier on a text, with the monitor idle; the functions
\* read their argument and write only the dictionary they return
classify_call ==
    /\ ~monitoring_active
    /\ classified = NoCall
    /\ \E fn \in Classifiers, text \in ClassifierTexts :
           classified' =
               [fn |-> fn, text |-> text,
                info |-> IF fn = "extract_movie_info"
                         THEN extract_movie_info(text)
                         ELSE enhanced_extract_movie_info(text)]
    /\ UNCHANGED <<monitoring_active, monitoring_threads, generation, scheduled,
                   threads, movie_updates, social_accounts, credentials, served,
                   starting, response, telegram, last_save, inserted_reports,
                   first_saved, created_at, clock, listing, handled, telegram_service,
                   faulty, audited, config_call, account_seq, last_batch>>

ClassifyNext == classify_call

\* no loop is followed and no remote service holds an item
ClassifyInit == InitServing({{}}, {}, {Delivering})

ClassifySpec == ClassifyInit /\ [][ClassifyNext]_vars

(***************************************************************************)
(* The dashboard's accessor GET /api/updates over the table the gate       *)
(* fills.                                                                  *)
(***************************************************************************)
\* seconds the clock of the database can advance
MaxClock == 1

\* CURRENT_TIMESTAMP has a resolution of one second
tick ==
    /\ clock < MaxClock
    /\ clock' = clock + 1
    /\ UNCHANGED <<monitoring_active, monitoring_threads, generation, scheduled,
                   threads, movie_updates, social_accounts, credentials, served,
                   starting, response, telegram, last_save, inserted_reports,
                   first_saved, classified, created_at, listing, handled, telegram_service,
                   faulty, audited, config_call, account_seq, last_batch>>

\* request.args of the filters; "": the argument is absent or empty
PlatformArgs == {"", "news"}

LanguageArgs == {"", "telugu"}

UpdateTypeArgs == {"", "trailer"}

\* int(request.args.get('page', 1)), int(request.args.get('per_page', 20))
PageArgs == {0, 1, 2}

PerPageArgs == {0 - 1, 1}

\* a WHERE clause that joins the supplied filters with OR
where_any(table, platform, language, update_type) ==
    { r \in 1..Len(table) :
          \/ platform = "" /\ language = "" /\ update_type = ""
          \/ platform # "" /\ table[r].platform = platform
          \/ language # "" /\ table[r].language = language
          \/ update_type # "" /\ table[r].update_type = update_type }

\* WHERE 1=1 [AND platform = ?] [AND language = ?] [AND update_type = ?]:
\* the row numbers that pass
where_rows(table, platform, language, update_type) ==
    { r \in 1..Len(table) :
          /\ platform # "" => table[r].platform = platform
          /\ language # "" => table[r].language = language
          /\ update_type # "" => table[r].update_type = update_type }

\* ORDER BY created_at DESC: the orders the engine may produce for the row
\* numbers in rows; rows with equal created_at come in an order SQL leaves open
order_by_created_at_desc(rows, stamps) ==
    { order \in [1..Cardinality(rows) -> rows] :
          /\ \A a, b \in 1..Cardinality(rows) : a # b => order[a] # order[b]
          /\ \A a, b \in 1..Cardinality(rows) :
                 a < b => stamps[order[a]] >= stamps[order[b]] }

\* a page that counts from zero
limit_offset_from_zero(order, limit, offset) ==
    LET first == IF offset + limit < 0 THEN 0 ELSE offset + limit
        count == IF limit < 0 THEN Len(order) ELSE limit
        last  == Min2(first + count, Len(order))
    IN  IF first >= last THEN <<>> ELSE SubSeq(order, first + 1, last)

\* LIMIT ? OFFSET ?: SQLite reads a negative LIMIT as no limit and a
\* negative OFFSET as 0
limit_offset(order, limit, offset) ==
    LET first == IF offset < 0 THEN 0 ELSE offset
        count == IF limit < 0 THEN Len(order) ELSE limit
        last  == Min2(first + count, Len(order))
    IN  IF first >= last THEN <<>> ELSE SubSeq(order, first + 1, last)

get_updates ==
    /\ \E platform \in PlatformArgs, language \in LanguageArgs,
          update_type \in UpdateTypeArgs, page \in PageArgs, per_page \in PerPageArgs :
       \E rows \in {where_rows(movie_updates, platform, language, update_type)} :
       \E order \in order_by_created_at_desc(rows, created_at) :
       \E shown \in {limit_offset(order, per_page, (page - 1) * per_page)} :
           listing' = [op |-> "get_updates",
                       platform |-> platform, language |-> language,
                       update_type |-> update_type,
                       updates |-> [k \in 1..Len(shown) |-> movie_updates[shown[k]]],
                       total |-> Cardinality(rows),
                       page |-> page, per_page |-> per_page]
    /\ UNCHANGED <<monitoring_active, monitoring_threads, generation, scheduled,
                   threads, movie_updates, social_accounts, credentials, served,
                   starting, response, telegram, last_save, inserted_reports,
                   first_saved, classified, created_at, clock, handled, telegram_service,
                   faulty, audited, config_call, account_seq, last_batch>>

\* one video loop with its client; the service holds a trailer, polled with
\* two view counts, and a plain video
AccessItems ==
    { item \in items_with(ContentIds) :
          /\ item.age = 1
          /\ \/ item.content_id = "101" /\ item.text = TextTrailer
                    /\ item.engagement \in {0, 1001}
             \/ item.content_id = "102" /\ item.text = TextPlain
                    /\ item.engagement = 0 }

AccessInit ==
    /\ InitServing({{"monitor_youtube_enhanced"}}, AccessItems, {Delivering})
    /\ credentials.youtube_client

AccessNext ==
    \/ save_call
    \/ tick
    \/ get_updates

AccessSpec == AccessInit /\ [][AccessNext]_vars
(***************************************************************************)
(* The admin surface on the social_accounts table.                         *)
(***************************************************************************)
\* add_account requests the model sends
MaxAdds == 1

\* the request body of /admin/add-account: the username of a seeded
\* instagram account under new values, so that the insert replaces a row
AddRequests ==
    { [name |-> "Allu Arjun Fans", platform |-> "instagram",
       username |-> "alluarjunonline", account_type |-> "fan_page",
       language |-> "hindi"] }

\* <int:account_id> of the toggle and delete routes: the id of the first
\* seeded row, a twitter account, and an id the table has not given out
AccountIdArgs == {1, Len(InitialAccounts) + MaxAdds + 1}

\* INSERT OR REPLACE INTO social_accounts (...) VALUES (..., True): a row
\* holding the (platform, username) of the request is deleted, and the new
\* row gets the next id
insert_or_replace_account(table, seq, data) ==
    Append(SelectSeq(table, LAMBDA a : ~(a.platform = data.platform
                                         /\ a.username = data.username)),
           [id |-> seq + 1, name |-> data.name, platform |-> data.platform,
            username |-> data.username, account_type |-> data.account_type,
            language |-> data.language, is_active |-> TRUE])

\* an UPDATE without its WHERE clause
toggle_every_row(table, account_id) ==
    [k \in 1..Len(table) |-> [table[k] EXCEPT !.is_active = ~@]]

\* UPDATE social_accounts SET is_active = NOT is_active WHERE id = ?
toggle_is_active(table, account_id) ==
    [k \in 1..Len(table) |->
        IF table[k].id = account_id
        THEN [table[k] EXCEPT !.is_active = ~@]
        ELSE table[k]]

\* DELETE FROM social_accounts WHERE id = ?
delete_where_id(table, account_id) ==
    SelectSeq(table, LAMBDA a : a.id # account_id)

add_account ==
    /\ account_seq < Len(InitialAccounts) + MaxAdds
    /\ \E data \in AddRequests :
           social_accounts' = insert_or_replace_account(social_accounts, account_seq, data)
    /\ account_seq' = account_seq + 1
    /\ UNCHANGED <<classified, clock, listing, telegram_service, faulty, audited, config_call>>
    /\ UNCHANGED <<created_at, handled, last_batch>>
    /\ UNCHANGED <<monitoring_active, monitoring_threads, generation, scheduled,
                   threads, movie_updates, credentials, served, starting,
                   response, telegram, last_save, inserted_reports, first_saved>>

toggle_account ==
    /\ \E account_id \in AccountIdArgs :
           social_accounts' = toggle_is_active(social_accounts, account_id)
    /\ UNCHANGED call_vars
    /\ UNCHANGED <<created_at, handled, last_batch>>
    /\ UNCHANGED <<monitoring_active, monitoring_threads, generation, scheduled,
                   threads, movie_updates, credentials, served, starting,
                   response, telegram, last_save, inserted_reports, first_saved>>

delete_account ==
    /\ \E account_id \in AccountIdArgs :
           social_accounts' = delete_where_id(social_accounts, account_id)
    /\ UNCHANGED call_vars
    /\ UNCHANGED <<created_at, handled, last_batch>>
    /\ UNCHANGED <<monitoring_active, monitoring_threads, generation, scheduled,
                   threads, movie_updates, credentials, served, starting,
                   response, telegram, last_save, inserted_reports, first_saved>>

\* the admin calls beside a twitter loop that has its client and reads the
\* table at the head of each batch; the requests add instagram accounts
AdminInit ==
    /\ InitServing({{"monitor_twitter"}}, one_item_each, {Delivering})
    /\ credentials.twitter_client

AdminNext == Next \/ add_account \/ toggle_account \/ delete_account

AdminSpec == AdminInit /\ [][AdminNext]_vars

(***************************************************************************)
(* Seeding of the social_accounts table at a restart of the process.       *)
(***************************************************************************)
\* an INSERT that tests no constraint
insert_account(db, account) ==
    [table |-> Append(db.table,
                      [id |-> db.seq + 1, name |-> account.name,
                       platform |-> account.platform, username |-> account.username,
                       account_type |-> account.account_type,
                       language |-> account.language, is_active |-> TRUE]),
     seq |-> db.seq + 1]

\* INSERT OR IGNORE INTO social_accounts (name, platform, username,
\* account_type, language): under UNIQUE(platform, username) the statement
\* does nothing when a row holds the key; is_active defaults to TRUE
insert_or_ignore_account(db, account) ==
    IF \E k \in 1..Len(db.table) : /\ db.table[k].platform = account.platform
                                   /\ db.table[k].username = account.username
    THEN db
    ELSE [table |-> Append(db.table,
                           [id |-> db.seq + 1, name |-> account.name,
                            platform |-> account.platform, username |-> account.username,
                            account_type |-> account.account_type,
                            language |-> account.language, is_active |-> TRUE]),
          seq |-> db.seq + 1]

RECURSIVE populate_from(_, _)
populate_from(db, n) ==
    IF n > Len(seeded_accounts)
    THEN db
    ELSE populate_from(insert_or_ignore_account(db, seeded_accounts[n]), n + 1)

\* _populate_default_accounts: `for account in default_accounts:` over the
\* table as it stands
populate_default_accounts(table, seq) ==
    populate_from([table |-> table, seq |-> seq], 1)

\* the process is stopped and started again: the globals get their values
\* of the import, the threads are gone, the tables stay, and
\* DatabaseManager() runs init_database, whose CREATE TABLE IF NOT EXISTS
\* statements find their tables, and seeds the accounts
restart ==
    /\ \E db \in {populate_default_accounts(social_accounts, account_seq)} :
           /\ db.seq <= Len(InitialAccounts) + MaxAdds + 1
           /\ social_accounts' = db.table
           /\ account_seq' = db.seq
    /\ monitoring_active' = FALSE
    /\ monitoring_threads' = [p \in scheduled_platforms |-> 0]
    /\ threads' = <<>>
    /\ starting' = [h \in Handlers |-> 0]
    /\ UNCHANGED <<classified, clock, listing, telegram_service, faulty, audited, config_call>>
    /\ UNCHANGED <<created_at, handled, last_batch>>
    /\ UNCHANGED <<generation, scheduled, movie_updates, credentials, served,
                   response, telegram, last_save, inserted_reports, first_saved>>

SeedNext == AdminNext \/ restart

SeedSpec == AdminInit /\ [][SeedNext]_vars

(***************************************************************************)
(* The active-toggle beside the batches of a twitter loop over three       *)
(* accounts, or of a video loop, which iterates its search queries.        *)
(***************************************************************************)
PassInit ==
    /\ InitWith({{"monitor_twitter"}, {"monitor_youtube"}}, one_item_each,
                {Delivering}, three_accounts, {NoFaults}, {})
    /\ \A p \in scheduled_platforms : credentials[credential_of(p)]

PassNext == Next \/ toggle_account

PassSpec == PassInit /\ [][PassNext]_vars

(***************************************************************************)
(* The accessor GET /api/search over the table a video loop fills: the     *)
(* title of such a row is the text of the video, its content is empty.     *)
(***************************************************************************)
\* request.args.get('q', ''): absent, the text of the plain video, the
\* word of the trailer in lower case and with its capital, the wildcard
\* characters of LIKE, and a letter no record holds
QueryArgs ==
    { <<>>, <<"h","i">>, <<"t","r","a","i","l","e","r">>, <<"T","r","a","i">>,
      <<"_">>, <<"%">>, <<"x">> }

\* the text of an actor_name column: '' or a canonical name of telugu_actors
name_text(name) ==
    IF name = "" THEN <<>>
    ELSE IF name = "Jr. NTR" THEN <<"J","r","."," ","N","T","R">>
    ELSE telugu_actors[CHOOSE k \in 1..Len(telugu_actors) :
                            telugu_actors[k][2] = name][1]

\* X LIKE pattern in SQLite: '%' stands for any run of characters, '_' for
\* any one character, and letters match without regard to case
RECURSIVE like(_, _)
like(text, pattern) ==
    IF pattern = <<>> THEN text = <<>>
    ELSE IF Head(pattern) = "%"
    THEN \E k \in 0..Len(text) : like(SubSeq(text, k + 1, Len(text)), Tail(pattern))
    ELSE /\ text # <<>>
         /\ Head(pattern) = "_" \/ lower_char(Head(pattern)) = lower_char(Head(text))
         /\ like(Tail(text), Tail(pattern))

\* WHERE title LIKE ? OR content LIKE ? OR movie_name LIKE ? OR
\* actor_name LIKE ?, each with f'%{query}%': the row numbers that pass
like_rows(table, query) ==
    { r \in 1..Len(table) :
          \E pattern \in {<<"%">> \o query \o <<"%">>} :
              \/ like(table[r].title, pattern)
              \/ like(table[r].content, pattern)
              \/ like(table[r].movie_name, pattern)
              \/ like(name_text(table[r].actor_name), pattern) }

search_updates ==
    /\ \E query \in QueryArgs :
           IF query = <<>>
           THEN listing' = [op |-> "search_updates", q |-> query,
                            updates |-> <<>>, read |-> FALSE]
           ELSE \E rows \in {like_rows(movie_updates, query)} :
                \E order \in order_by_created_at_desc(rows, created_at) :
                \E shown \in {limit_offset(order, 50, 0)} :
                    listing' = [op |-> "search_updates", q |-> query,
                                updates |-> [k \in 1..Len(shown) |->
                                                movie_updates[shown[k]]],
                                read |-> TRUE]
    /\ UNCHANGED <<monitoring_active, monitoring_threads, generation, scheduled,
                   threads, movie_updates, social_accounts, credentials, served,
                   starting, response, telegram, last_save, inserted_reports,
                   first_saved, classified, created_at, clock, handled, telegram_service,
                   faulty, audited, config_call, account_seq, last_batch>>

SearchNext ==
    \/ save_call
    \/ tick
    \/ search_updates

SearchSpec == AccessInit /\ [][SearchNext]_vars

(***************************************************************************)
(* The per-article code of monitor_news_websites, with the URLs the news   *)
(* service returns written out.                                            *)
(***************************************************************************)
\* article.get('url', ''): two articles of different sites that end in the
\* same segment, two that end in '/', one of its own, and a missing url
ArticleUrls ==
    { <<"a",".","i","n","/","f","i","l","m">>,
      <<"b",".","i","n","/","f","i","l","m">>,
      <<"a",".","i","n","/","x","/">>,
      <<"b",".","i","n","/","y","/">>,
      <<"a",".","i","n","/","n","e","w">>,
      <<>> }

\* a key that is the url as a whole
whole_url(url) == url

\* url.split('/')[-1]
last_segment(url) ==
    IF \E p \in 1..Len(url) : url[p] = "/"
    THEN SubSeq(url, SetMax({ p \in 1..Len(url) : url[p] = "/" }) + 1, Len(url))
    ELSE url

\* `for article in data.get('articles', [])`: one article of a source, with
\* the title of a trailer and no description
article_save ==
    /\ "monitor_news_websites" \in scheduled
    /\ \E url \in ArticleUrls, title \in {TextTrailer}, source \in {"news18.com"} :
       \E info \in {extract_movie_info(title \o <<" ">>)} :
       \E row \in {movie_update_row("news", source, last_segment(url), title, <<>>, url,
                                    [language |-> info.language,
                                     movie_name |-> info.movie_name,
                                     update_type |-> info.update_type])} :
       \E saved \in {save_movie_update(movie_updates, row)} :
           /\ movie_updates' = saved.table
           /\ created_at' = IF Len(saved.table) > Len(movie_updates)
                            THEN Append(created_at, clock)
                            ELSE created_at
           /\ last_save' =
                  [target |-> "monitor_news_websites", pass |-> 1,
                   key |-> <<row.platform, row.content_id>>, url |-> url,
                   existed |-> unique_conflict(movie_updates, row.platform,
                                               row.content_id),
                   same_fields |->
                       \E r \in 1..Len(movie_updates) :
                           fields_of(movie_updates[r]) = fields_of(row),
                   update_id |-> saved.update_id,
                   notified |-> FALSE]
    /\ UNCHANGED <<monitoring_active, monitoring_threads, generation, scheduled,
                   threads, social_accounts, credentials, served, starting,
                   response, telegram, inserted_reports, first_saved, classified,
                   clock, listing, handled, telegram_service, faulty, audited, config_call,
                   account_seq, last_batch>>

ArticleInit ==
    /\ InitServing({{"monitor_news_websites"}}, {}, {Delivering})
    /\ credentials.news_api_key

ArticleNext == article_save \/ tick

ArticleSpec == ArticleInit /\ [][ArticleNext]_vars

(***************************************************************************)
(* The per-tweet code of monitor_twitter, for tweets that name a movie, an *)
(* actor, directors and production houses.                                 *)
(***************************************************************************)
\* tweet.text
TweetTexts ==
    { TextPushpa,
      <<"O","f","f","i","c","i","a","l"," ","T","r","a","i","l","e","r",
        " ","P","r","a","b","h","a","s">>,
      <<" ","s","u","k","u","m","a","r"," ","r","a","j","a","m","o","u","l","i">>,
      <<" ","D","V","V"," ","E","n","t","e","r","t","a","i","n","m","e","n","t","s",
        " ","g","e","e","t","h","a"," ","a","r","t","s">> }

\* `for tweet in tweets.data:` for one fresh tweet of an account: classify,
\* save, notification decision
tweet_save ==
    /\ "monitor_twitter" \in scheduled
    /\ \E account \in accounts_of("monitor_twitter"), text \in TweetTexts,
          content_id \in ContentIds, engagement \in EngagementValues("monitor_twitter") :
       \E item \in {[content_id |-> content_id, text |-> text,
                     engagement |-> engagement, age |-> 1]} :
       \E row \in {call_arguments("monitor_twitter", 1, account, item,
                                  extract_movie_info(text))} :
       \E saved \in {save_movie_update(movie_updates, row)} :
       \E notify \in {should_notify("monitor_twitter", 1, saved.update_id,
                                    row.update_type, engagement)} :
       \E key \in {<<row.platform, row.content_id>>} :
           /\ movie_updates' = saved.table
           /\ created_at' = IF Len(saved.table) > Len(movie_updates)
                            THEN Append(created_at, clock)
                            ELSE created_at
           /\ telegram' = IF notify
                          THEN [telegram EXCEPT ![key] = sat_inc(@)]
                          ELSE telegram
           /\ last_save' =
                  [target |-> "monitor_twitter", pass |-> 1, key |-> key,
                   existed |-> unique_conflict(movie_updates, key[1], key[2]),
                   same_fields |->
                       \E r \in 1..Len(movie_updates) :
                           fields_of(movie_updates[r]) = fields_of(row),
                   update_id |-> saved.update_id,
                   notified |-> notify]
    /\ UNCHANGED <<monitoring_active, monitoring_threads, generation, scheduled,
                   threads, social_accounts, credentials, served, starting,
                   response, inserted_reports, first_saved, classified,
                   clock, listing, handled, telegram_service, faulty, audited, config_call,
                   account_seq, last_batch>>

TweetInit ==
    /\ InitServing({{"monitor_twitter"}}, {}, {Delivering})
    /\ credentials.twitter_client

TweetNext == tweet_save

TweetSpec == TweetInit /\ [][TweetNext]_vars

(***************************************************************************)
(* src/config.py: Config.validate_config over the attributes of a          *)
(* configuration class, and ConfigManager.get_config.  A string attribute  *)
(* is "" when the environment variable is unset or empty (None and '' are  *)
(* both falsy).                                                            *)
(***************************************************************************)
\* the attributes validate_config reads, as the environment can set them
ConfigSettings ==
    [ TWITTER_BEARER_TOKEN : {"", "token"},
      INSTAGRAM_ACCESS_TOKEN : {"", "token"},
      YOUTUBE_API_KEY : {"", "key"},
      TELEGRAM_BOT_TOKEN : {"", "token"},
      TELEGRAM_CHANNEL_ID : {"", "@channel"},
      TWITTER_INTERVAL : {4, 5, 121},
      INSTAGRAM_INTERVAL : {4, 5, 120},
      YOUTUBE_INTERVAL : {0, 30, 121},
      ADMIN_PASSWORD : {"admin123", "s3cret"},
      SECRET_KEY : {"movie-monitor-secret-key-please-change-in-production", "k"} ]

\* bool(s) of a string
bool_str(s) == s # ""

\* a and b
py_and(a, b) == IF bool_str(a) THEN b ELSE a

\* api_configs, in the order of the dict
api_platforms == <<"twitter", "instagram", "youtube", "telegram">>

api_configs(cls) ==
    [ twitter |-> cls.TWITTER_BEARER_TOKEN,
      instagram |-> cls.INSTAGRAM_ACCESS_TOKEN,
      youtube |-> cls.YOUTUBE_API_KEY,
      telegram |-> py_and(cls.TELEGRAM_BOT_TOKEN, cls.TELEGRAM_CHANNEL_ID) ]

\* intervals, in the order of the dict
interval_platforms == <<"twitter", "instagram", "youtube">>

intervals(cls) ==
    [ twitter |-> cls.TWITTER_INTERVAL,
      instagram |-> cls.INSTAGRAM_INTERVAL,
      youtube |-> cls.YOUTUBE_INTERVAL ]

\* platform.title()
title(platform) ==
    CASE platform = "twitter" -> "Twitter"
      [] platform = "instagram" -> "Instagram"
      [] platform = "youtube" -> "Youtube"
      [] platform = "telegram" -> "Telegram"

\* a test that takes 5 minutes for too low as well
interval_at_most_5(interval) == interval <= 5

\* `if interval < 5:`
interval_too_low(interval) == interval < 5

\* `elif interval > 120:`
interval_very_high(interval) == ~interval_too_low(interval) /\ interval > 120

\* the messages of a loop over `platforms` for the entries that pass `test`
messages(platforms, test(_), text(_)) ==
    [k \in 1..Len(SelectSeq(platforms, test)) |->
        text(SelectSeq(platforms, test)[k])]

\* Config.validate_config
validate_config(cls) ==
    LET not_configured(p) == ~bool_str(api_configs(cls)[p])
        low(p) == interval_too_low(intervals(cls)[p])
        high(p) == interval_very_high(intervals(cls)[p])
        default_password == cls.ADMIN_PASSWORD = "admin123"
        default_key ==
            cls.SECRET_KEY = "movie-monitor-secret-key-please-change-in-production"
        api_message(p) == <<title(p), " API not configured">>
        low_message(p) == <<title(p), " interval too low (minimum 5 minutes)">>
        high_message(p) == <<title(p), " interval very high (", intervals(cls)[p],
                             " minutes)">>
    IN  [ valid |-> ~(\E k \in 1..Len(interval_platforms) : low(interval_platforms[k]))
                    /\ ~default_key,
          warnings |->
              messages(api_platforms, not_configured, api_message)
                  \o messages(interval_platforms, high, high_message)
                  \o (IF default_password
                      THEN << <<"Using default admin password - please change for security">> >>
                      ELSE <<>>),
          errors |->
              messages(interval_platforms, low, low_message)
                  \o (IF default_key
                      THEN << <<"Using default secret key - must change for production">> >>
                      ELSE <<>>),
          api_status |-> [p \in {"twitter", "instagram", "youtube", "telegram"} |->
                             bool_str(api_configs(cls)[p])] ]

\* ConfigManager.configs
configs ==
    [ development |-> "DevelopmentConfig",
      testing |-> "TestingConfig",
      production |-> "ProductionConfig",
      default |-> "Config" ]

\* config_name = None
NoName == "None"

\* the config_name argument: absent, the registered names, and names that
\* are not registered
ConfigNames ==
    {NoName, "development", "testing", "production", "default", "staging", "", "Production"}

\* os.getenv('FLASK_ENV'): unset, a registered and an unregistered name
FlaskEnvs == {NoName, "testing", "prod"}

\* a lookup that raises KeyError for a name that is not registered
configs_subscript(table, key, default) ==
    IF key \in DOMAIN table THEN table[key] ELSE "KeyError"

\* dict.get(key, default)
configs_get(table, key, default) ==
    IF key \in DOMAIN table THEN table[key] ELSE default

\* os.getenv(name, default) for a variable whose value is `value`
getenv(value, default) == IF value = NoName THEN default ELSE value

\* ConfigManager.get_config(config_name) under FLASK_ENV = flask_env
get_config(config_name, flask_env) ==
    configs_get(configs,
                IF config_name = NoName THEN getenv(flask_env, "default")
                ELSE config_name,
                configs["default"])

\* one call of validate_config on a configuration class
validate_config_call ==
    /\ config_call = NoCall
    /\ \E cls \in ConfigSettings :
           config_call' = [fn |-> "validate_config", cls |-> cls,
                           result |-> validate_config(cls)]
    /\ UNCHANGED <<monitoring_active, monitoring_threads, generation, scheduled,
                   threads, movie_updates, social_accounts, credentials, served,
                   starting, response, telegram, last_save, inserted_reports,
                   first_saved, classified, created_at, clock, listing, handled,
                   telegram_service, faulty, audited, account_seq, last_batch>>

\* one call of get_config
get_config_call ==
    /\ config_call = NoCall
    /\ \E config_name \in ConfigNames, flask_env \in FlaskEnvs :
           config_call' = [fn |-> "get_config", config_name |-> config_name,
                           flask_env |-> flask_env,
                           result |-> get_config(config_name, flask_env)]
    /\ UNCHANGED <<monitoring_active, monitoring_threads, generation, scheduled,
                   threads, movie_updates, social_accounts, credentials, served,
                   starting, response, telegram, last_save, inserted_reports,
                   first_saved, classified, created_at, clock, listing, handled,
                   telegram_service, faulty, audited, account_seq, last_batch>>

ConfigNext == validate_config_call \/ get_config_call

ConfigSpec == ClassifyInit /\ [][ConfigNext]_vars


(***************************************************************************)
(* Properties of the persistence gate.                                     *)
(***************************************************************************)
featured_types == {"trailer", "teaser", "poster"}

\* the last call of save_movie_update hit a key that was already stored
resaved == last_save # NoSave /\ last_save.existed

\* the last call of save_movie_update stored a new row
fresh_saved == last_save # NoSave /\ ~last_save.existed

\* the row stored under the key of the last save
last_row == stored_row(movie_updates, last_save.key)

\* C1: whatever the order of the save_movie_update calls, the table holds
\* at most one row per (platform, content_id)
C1_OneRecordPerKey ==
    \A a, b \in 1..Len(movie_updates) :
        (/\ movie_updates[a].platform = movie_updates[b].platform
         /\ movie_updates[a].content_id = movie_updates[b].content_id) => a = b

\* a key was saved again while another key is stored as well
C1_Witness == resaved /\ Len(movie_updates) = 2

\* C2: a key saved twice with different payloads keeps the fields of the
\* first call, and the second call returns a falsy value
C2_FirstWriteWins ==
    /\ \A k \in Keys :
           first_saved[k] # NoRow =>
               \A f \in {"title", "content", "url", "language", "movie_name",
                         "actor_name", "update_type", "engagement_count"} :
                   stored_row(movie_updates, k)[f] = first_saved[k][f]
    /\ resaved => ~truthy(last_save.update_id)

\* a key was saved again with a payload that differs from the stored row
C2_Witness == resaved /\ ~last_save.same_fields

\* C3: saving a key that is not stored yet inserts the row and returns a
\* truthy record id
C3_FreshSaveReturnsId ==
    fresh_saved => (/\ unique_conflict(movie_updates, last_save.key[1], last_save.key[2])
                    /\ truthy(last_save.update_id))

\* C4: once the same key has been saved by two calls, one row is stored,
\* exactly one of the calls has reported an insert and at most one
\* notification was sent
C4_ExactlyOneInserted ==
    resaved => (/\ C1_OneRecordPerKey
                /\ inserted_reports[last_save.key] = 1
                /\ telegram[last_save.key] <= 1)

\* C5: a content notification is sent only by the call that inserted the
\* row, and a key never gets more than one content notification
C5_NotifyOncePerKey ==
    /\ \A k \in Keys : telegram[k] <= 1
    /\ (last_save # NoSave /\ last_save.notified) => ~last_save.existed

\* a stored trailer was polled and saved again
C5_Witness == resaved /\ last_row.update_type = "trailer"

\* C6: every freshly inserted trailer, teaser or poster record is notified,
\* on every platform and whatever its engagement
C6_FeaturedAlwaysNotified ==
    (fresh_saved /\ last_row.update_type \in featured_types) => last_save.notified

\* the engagement a record has to exceed on its platform, if there is one
C7_Exceeds(row) ==
    \/ row.platform = "twitter" /\ row.engagement_count > 500
    \/ row.platform = "instagram" /\ row.engagement_count > 1000

alive_in(ths, p) == { t \in 1..Len(ths) : ths[t].platform = p /\ ths[t].pc # "done" }

alive(p) == alive_in(threads, p)

\* C8: whenever a start call, running alone, turns the monitor on (at first
\* or after a stop), every platform has at most one loop thread alive
C8_OneLoopPerPlatform ==
    [][(~monitoring_active /\ monitoring_active' /\ starts_in_flight = 1) =>
          \A p \in scheduled_platforms : Cardinality(alive_in(threads', p)) <= 1]_vars

\* C9: a start call that finds the monitor running answers
\* 'already_running' and changes nothing else: no thread, no flag or
\* thread-table change, no notification, no spawn under way
C9_StartWhileRunningNoOp ==
    /\ [][(response' # response /\ response'.status = "already_running") =>
             (/\ monitoring_active
              /\ ~response'.notified
              /\ UNCHANGED <<monitoring_active, monitoring_threads, threads,
                             generation, telegram, starting, movie_updates>>)]_vars
    /\ [][monitoring_active =>
             \A h \in Handlers : starting'[h] <= starting[h]]_vars

\* a start call was answered 'already_running' while loops were alive
C9_Witness ==
    /\ response.status = "already_running"
    /\ monitoring_active
    /\ \E p \in scheduled_platforms : alive(p) # {}

AllLoopsDone == \A t \in 1..Len(threads) : threads[t].pc = "done"

\* C10: if the monitor is stopped and not started again, every loop
\* observes the cleared flag and terminates; stop itself leaves the
\* threads alone, whatever they are doing
C10_StopTerminates ==
    /\ (<>[](~monitoring_active)) => <>[]AllLoopsDone
    /\ [][(monitoring_active /\ ~monitoring_active') => threads' = threads]_vars

\* the monitor is stopped while a loop is in the middle of a fetched batch
C10_Witness ==
    ~monitoring_active /\ \E t \in 1..Len(threads) : threads[t].pc = "item"

(***************************************************************************)
(* Classifier properties, over the last classifier call.                   *)
(***************************************************************************)
\* the keyword lists a classifier consults for update_type, as <<label, list>>
update_type_lists(fn) ==
    IF fn = "extract_movie_info"
    THEN << <<"trailer", kw_trailer>>, <<"teaser", kw_teaser>>,
            <<"poster", kw_poster>>, <<"announcement", kw_announcement>> >>
    ELSE << <<"trailer", ekw_trailer>>, <<"teaser", ekw_teaser>>,
            <<"poster", ekw_poster>>, <<"announcement", ekw_announcement>>,
            <<"box_office", ekw_box_office>>, <<"review", ekw_review>> >>

\* the keyword lists a classifier consults for language
language_lists(fn) ==
    IF fn = "extract_movie_info"
    THEN << <<"telugu", kw_telugu>>, <<"tamil", kw_tamil>>, <<"hindi", kw_hindi>> >>
    ELSE << <<"telugu", ekw_telugu>>, <<"tamil", ekw_tamil>>, <<"hindi", ekw_hindi>>,
            <<"malayalam", ekw_malayalam>>, <<"kannada", ekw_kannada>> >>

\* label is what a priority list gives for the text t: the label of a list
\* with a hit that no earlier list precedes with a hit, or the default
is_first_hit(lists, t, label, default) ==
    \/ /\ \A k \in 1..Len(lists) : ~any_word_in(lists[k][2], t)
       /\ label = default
    \/ \E k \in 1..Len(lists) :
           /\ any_word_in(lists[k][2], t)
           /\ \A m \in 1..(k - 1) : ~any_word_in(lists[m][2], t)
           /\ label = lists[k][1]

called == classified.fn # "none"

\* C16: the update type of a classified text is the first category in the
\* order trailer, teaser, poster, announcement, box_office, review with a
\* keyword in the lowercased text, else news; its language is the first of
\* telugu, tamil, hindi, malayalam, kannada with a keyword in it (each
\* classifier with the keyword lists it has).
C16_PriorityCascade ==
    called =>
        \A t \in {lower(classified.text)} :
            /\ is_first_hit(update_type_lists(classified.fn), t,
                            classified.info.update_type, "news")
            /\ is_first_hit(language_lists(classified.fn), t,
                            classified.info.language, "")

\* a text with trailer and box-office keywords, naming telugu and tamil
C16_Witness ==
    /\ classified.fn = "enhanced_extract_movie_info"
    /\ \E t \in {lower(classified.text)} :
           /\ any_word_in(ekw_trailer, t)
           /\ any_word_in(ekw_box_office, t)
           /\ any_word_in(ekw_telugu, t)
           /\ any_word_in(ekw_tamil, t)
    /\ classified.info.update_type = "trailer"
    /\ classified.info.language = "telugu"

\* name is what a lookup table gives for the text t
is_first_entry(table, t, name) ==
    \/ /\ \A k \in 1..Len(table) : ~contains(t, table[k][1])
       /\ name = ""
    \/ \E k \in 1..Len(table) :
           /\ contains(t, table[k][1])
           /\ \A m \in 1..(k - 1) : ~contains(t, table[m][1])
           /\ name = table[k][2]

\* C17: actor, director and production house are the canonical names of the
\* first entry of their table, in insertion order, whose key is in the
\* lowercased text, and are empty when no key is.
C17_FirstTableEntry ==
    classified.fn = "enhanced_extract_movie_info" =>
        \A t \in {lower(classified.text)} :
            /\ is_first_entry(telugu_actors, t, classified.info.actor_name)
            /\ is_first_entry(directors, t, classified.info.director_name)
            /\ is_first_entry(production_houses, t, classified.info.production_house)

\* a text naming 'ram charan' before 'ntr': the table lists 'ntr' first
C17_Witness ==
    /\ classified.fn = "enhanced_extract_movie_info"
    /\ \E t \in {lower(classified.text)} :
           /\ contains(t, <<"n","t","r">>)
           /\ contains(t, <<"r","a","m"," ","c","h","a","r","a","n">>)
    /\ classified.info.actor_name = "Jr. NTR"
    /\ classified.info.director_name = ""

\* C18: classifying "Pushpa 2 official trailer out now! #PushpaMovie telugu
\* blockbuster" gives update_type trailer, language telugu and movie_name
\* "Pushpa".
C18_PushpaAnnotation ==
    (called /\ classified.text = TextPushpa) =>
        /\ classified.info.update_type = "trailer"
        /\ classified.info.language = "telugu"
        /\ classified.info.movie_name = <<"P","u","s","h","p","a">>

(***************************************************************************)
(* Dashboard properties.                                                   *)
(***************************************************************************)
\* the row numbers of the table, each at most once, in any order and number
row_listings ==
    { ids \in UNION { [1..m -> 1..Len(movie_updates)] : m \in 0..Len(movie_updates) } :
          \A a, b \in 1..Len(ids) : a # b => ids[a] # ids[b] }

\* ids lists exactly the rows that pass the filters of the answer q, newest
\* first
is_filtered_newest_first(ids, q) ==
    /\ \A r \in 1..Len(movie_updates) :
           (\E k \in 1..Len(ids) : ids[k] = r)
               <=> /\ q.platform # "" => movie_updates[r].platform = q.platform
                   /\ q.language # "" => movie_updates[r].language = q.language
                   /\ q.update_type # "" => movie_updates[r].update_type = q.update_type
    /\ \A a, b \in 1..Len(ids) :
           a < b => created_at[ids[a]] >= created_at[ids[b]]

\* the answer q shows the rows at positions first..last of ids
shows_positions(q, ids, first, last) ==
    \E at \in { { k \in 1..Len(ids) : first <= k /\ k <= last } } :
        /\ Len(q.updates) = Cardinality(at)
        /\ \A k \in 1..Len(q.updates) :
               /\ first + k - 1 \in at
               /\ q.updates[k] = movie_updates[ids[first + k - 1]]

\* the answer q is page q.page of the filtered rows, newest first
is_page(q) ==
    \E ids \in row_listings :
        /\ is_filtered_newest_first(ids, q)
        /\ shows_positions(q, ids, (q.page - 1) * q.per_page + 1, q.page * q.per_page)

C15_StoredNeverChanges ==
    [][/\ Len(movie_updates') >= Len(movie_updates)
       /\ \A r \in 1..Len(movie_updates) :
              /\ movie_updates'[r] = movie_updates[r]
              /\ created_at'[r] = created_at[r]]_vars

\* the trailer was polled again with another view count, the record holds
\* the count of the first poll, and the accessor has shown it
C15_Witness ==
    /\ resaved
    /\ ~last_save.same_fields
    /\ \E r \in 1..Len(movie_updates) :
           /\ movie_updates[r].content_id = "101"
           /\ fields_of(movie_updates[r]) = first_saved[last_save.key]
           /\ movie_updates[r].engagement_count = 1001
           /\ listing.op = "get_updates"
           /\ \E k \in 1..Len(listing.updates) : listing.updates[k] = movie_updates[r]

(***************************************************************************)
(* The recency test of the social loops.                                   *)
(***************************************************************************)
social_loops == {"monitor_twitter", "monitor_instagram", "monitor_instagram_enhanced"}

\* C13: an item of a twitter or instagram loop that is more than 24 hours
\* old is not passed to the classifier, not saved and not notified.
C13_OldItemsSkipped ==
    (handled.target \in social_loops /\ handled.age > 24) =>
        /\ ~handled.classified
        /\ ~handled.saved
        /\ ~handled.notified

\* a loop took up a 25 hours old item after it had stored a fresh one with
\* the same content id, and the table still holds only that row
C13_Witness ==
    /\ handled.target \in {"monitor_twitter", "monitor_instagram"}
    /\ handled.age = 25
    /\ ~handled.classified
    /\ Len(movie_updates) = 1
    /\ last_save # NoSave

(***************************************************************************)
(* Notification delivery.                                                  *)
(***************************************************************************)
\* the last call of the sender by a handler did not deliver
handler_delivery_failed(r) == r.notified /\ r.delivered # "True"

exits(t) == threads[t].pc # "done" /\ threads'[t].pc = "done"

\* this step of a followed thread t ended a batch with an exception that
\* reached the outer handler
batch_raised(t) ==
    /\ threads[t].gen \in audited
    /\ threads'[t] # threads[t]
    /\ last_batch' # last_batch
    /\ last_batch'.ended = "exception"

\* C11: a loop thread leaves its loop only when it reads the run flag as
\* stopped; an exception of a batch (a fetch, the read of the account list,
\* the event log) is caught per account or per batch, and after a per-batch
\* exception the thread sleeps 60 s and is back at the head of the batch.
C11_NoExitOnException ==
    [][\A t \in 1..Len(threads) :
           /\ exits(t) => ~monitoring_active
           /\ batch_raised(t) =>
                  /\ last_batch'.pause = 60
                  /\ threads'[t].pc = "top"
                  /\ threads'[t].i = 0]_vars

\* while the flag is on, a twitter thread whose last batch ended in the
\* outer handler after the fetch for the second account raised, is in the
\* next batch
C11_Witness ==
    /\ monitoring_active
    /\ last_batch.target = "monitor_twitter"
    /\ last_batch.ended = "exception"
    /\ last_batch.raised = {<<1, 2>>}
    /\ \E t \in 1..Len(threads) :
           threads[t].gen \in audited /\ threads[t].pc = "acct"

\* C12: a batch over three active accounts in which the fetch for the second
\* raises still fetches for the first and the third, and its log shows
\* exactly one error.
C12_OneErrorForTheBatch ==
    (/\ last_batch.target = "monitor_twitter"
     /\ last_batch.accounts = 3
     /\ last_batch.raised = {<<1, 2>>}) =>
        /\ last_batch.fetched = {<<1, 1>>, <<1, 3>>}
        /\ last_batch.errors = 1

(***************************************************************************)
(* Saves of loops of different platforms.                                  *)
(***************************************************************************)
\* the stored records of platform p, in insertion order, without their ids
records_of(table, p) ==
    [k \in 1..Len(SelectSeq(table, LAMBDA row : row.platform = p)) |->
        fields_of(SelectSeq(table, LAMBDA row : row.platform = p)[k])]

\* C21: a save of a loop of platform p leaves the records of every other
\* platform as they are, and what it does to the records of p (insert the
\* key, or nothing) is decided by the records of p alone; so the records a
\* platform ends with are those of its own saves in their own order,
\* however the saves of the platforms interleave.
C21_SavesCommute ==
    [][last_save' # NoSave =>
          /\ \A q \in Platforms \ {last_save'.key[1]} :
                 records_of(movie_updates', q) = records_of(movie_updates, q)
          /\ \E mine \in {records_of(movie_updates, last_save'.key[1])} :
                 IF \E k \in 1..Len(mine) : mine[k].content_id = last_save'.key[2]
                 THEN records_of(movie_updates', last_save'.key[1]) = mine
                 ELSE /\ Len(movie_updates') = Len(movie_updates) + 1
                      /\ records_of(movie_updates', last_save'.key[1]) =
                             Append(mine, first_saved'[last_save'.key])]_vars

\* loops of two platforms have each stored the record of content id 101,
\* the second save finding the id in the table under the other platform
C21_Witness ==
    /\ Len(movie_updates) = 2
    /\ movie_updates[1].platform # movie_updates[2].platform
    /\ movie_updates[1].content_id = movie_updates[2].content_id
    /\ last_save.key[1] = movie_updates[2].platform
    /\ ~last_save.existed

(***************************************************************************)
(* The start action.                                                       *)
(***************************************************************************)
\* this step is the spawning part of a start call
spawns == generation' > generation

\* C23: a start call made while the monitor is stopped sets the run flag,
\* starts a loop thread for each of twitter, instagram, youtube and news
\* (monitoring_threads holds a thread of this call for each of them), and
\* answers 'started'.
C23_StartSpawnsEveryPlatform ==
    [][(spawns /\ ~monitoring_active) =>
          /\ monitoring_active'
          /\ response'.status = "started"
          /\ \A p \in scheduled_platforms : monitoring_threads'[p] = generation']_vars

\* C24: of two start calls handled at the same time while the monitor is
\* stopped only one spawns threads: no start call spawns when the run flag
\* is already set.
C24_OneStartSpawns ==
    [][spawns => ~monitoring_active]_vars

(***************************************************************************)
(* Pacing, intervals and missing credentials.                              *)
(***************************************************************************)
\* C25: in a batch pass the pacing delay is taken after every account,
\* also after one whose fetch raised and after one that was skipped because
\* the user lookup returned no data.
C25_PacedAfterEveryAccount ==
    last_batch # NoBatch =>
        (last_batch.fetched \cup last_batch.raised) \subseteq last_batch.paced

\* C26: a batch pass in which no remote call failed is logged as completed
\* and followed by the sleep of the configured interval of the platform
\* (10, 30, 20, 30 minutes for twitter, instagram, youtube, news), not by
\* the 60 s backoff; so for twitter as well.
C26_IntervalAfterCleanPass ==
    (last_batch # NoBatch /\ last_batch.ended # "unavailable"
       /\ last_batch.raised = {}) =>
        /\ last_batch.ended = "completed"
        /\ last_batch.pause =
               (CASE platform_of(last_batch.target) = "twitter" -> 10
                  [] platform_of(last_batch.target) = "instagram" -> 30
                  [] platform_of(last_batch.target) = "youtube" -> 20
                  [] platform_of(last_batch.target) = "news" -> 30) * 60

\* the client or key the loop function needs is missing
unavailable(target) == ~credentials[credential_of(platform_of(target))]

\* no thread of a loop without its credential has fetched, met an exception
\* or is processing an item, and while no scheduled loop has its credential
\* nothing is saved and no record is notified
no_work_without_credential ==
    /\ \A t \in 1..Len(threads) :
           unavailable(threads[t].target) =>
               /\ threads[t].pc # "item"
               /\ threads[t].fetched = {}
               /\ threads[t].raised = {}
               /\ threads[t].errors = 0
    /\ (\A target \in scheduled : unavailable(target)) =>
           /\ movie_updates = <<>>
           /\ handled = NoItem
           /\ \A key \in Keys : telegram[key] = 0

\* a thread of a loop without its credential leaves its loop only with the
\* run flag off
stays_without_credential ==
    \A t \in 1..Len(threads) :
        (unavailable(threads[t].target) /\ exits(t)) => ~monitoring_active

\* the pass of a loop without its credential fetched nothing, logged no
\* error and was followed by the 60 s sleep
backs_off_60(batch) ==
    /\ batch.fetched = {}
    /\ batch.errors = 0
    /\ batch.ended = "unavailable"
    /\ batch.pause = 60

\* C27 as stated: without its client or key every loop, both instagram loops
\* included, fetches, saves and notifies nothing, sleeps 60 s and tests the
\* credential again, and does not leave its loop while the flag is on.
C27_BackoffWithoutCredential ==
    /\ [](/\ no_work_without_credential
          /\ (last_batch # NoBatch /\ unavailable(last_batch.target)) =>
                 backs_off_60(last_batch))
    /\ [][stays_without_credential]_vars

\* C27, amended: as above for monitor_twitter, monitor_instagram, both
\* youtube loops and monitor_news_websites; monitor_instagram_enhanced has no
\* test at the head of its batch: without a token it goes through its
\* accounts with no fetch, sleeping 10 s after each, and then sleeps the
\* instagram interval of 30 minutes.
C27_IdleWithoutCredential ==
    /\ [](/\ no_work_without_credential
          /\ (last_batch # NoBatch /\ unavailable(last_batch.target)) =>
                 IF last_batch.target = "monitor_instagram_enhanced"
                 THEN /\ last_batch.fetched = {}
                      /\ last_batch.errors = 0
                      /\ last_batch.ended = "completed"
                      /\ last_batch.pause = 30 * 60
                      /\ Cardinality(last_batch.paced) = last_batch.accounts
                 ELSE backs_off_60(last_batch))
    /\ [][stays_without_credential]_vars

\* a loop without its credential has slept its 60 s, the flag is on, and
\* its thread is back at the head of the loop
C27_Witness ==
    /\ monitoring_active
    /\ last_batch # NoBatch
    /\ last_batch.ended = "unavailable"
    /\ unavailable(last_batch.target)
    /\ \E t \in 1..Len(threads) :
           /\ threads[t].gen \in audited
           /\ threads[t].target = last_batch.target
           /\ threads[t].pc = "top"

(***************************************************************************)
(* The recency window in every loop.                                       *)
(***************************************************************************)
\* the longest window of a loop function, in hours: the test of the loop,
\* or the `from` / publishedAfter argument of its request
longest_window(target) ==
    CASE target \in {"monitor_twitter", "monitor_instagram", "monitor_youtube"} -> 24
      [] target \in {"monitor_instagram_enhanced", "monitor_youtube_enhanced"} -> 12
      [] target = "monitor_news_websites" -> 6

\* C28: in every loop, the news loop and the youtube search passes
\* included, a fetched item older than the window of the loop is dropped by
\* the loop before it is classified or saved, whatever the service returned.
C28_EveryLoopDropsOldItems ==
    (handled # NoItem /\ handled.age > longest_window(handled.target)) =>
        /\ ~handled.classified
        /\ ~handled.saved

(***************************************************************************)
(* Who writes the run flag.                                                *)
(***************************************************************************)
\* this step is one of a loop: a thread moved, or a batch or an item was
\* recorded, or the table changed
loop_step ==
    \/ \E t \in 1..Len(threads) : threads'[t] # threads[t]
    \/ last_batch' # last_batch
    \/ handled' # handled
    \/ movie_updates' # movie_updates

\* C29: monitoring_active changes only in the spawning part of a start call
\* and in a stop call; no step of a loop (an item, an account whose fetch
\* raised, a batch that ended in the outer handler) changes it.
C29_OnlyControlWritesFlag ==
    [][/\ loop_step => monitoring_active' = monitoring_active
       /\ monitoring_active' # monitoring_active =>
              \/ spawns /\ monitoring_active'
              \/ response'.op = "stop_monitoring" /\ ~monitoring_active']_vars

\* with the flag on, a twitter batch has stored a record, met an exception
\* for one account and ended in the outer handler
C29_Witness ==
    /\ monitoring_active
    /\ last_batch # NoBatch
    /\ last_batch.target = "monitor_twitter"
    /\ last_batch.raised # {}
    /\ last_batch.ended = "exception"
    /\ Len(movie_updates) >= 1

(***************************************************************************)
(* Changes of the social_accounts table.                                   *)
(***************************************************************************)
\* the table after differs from the table before in is_active of the row
\* with the given id, and in nothing else
is_toggle_of(before, after, account_id) ==
    /\ Len(after) = Len(before)
    /\ \A k \in 1..Len(before) :
           IF before[k].id = account_id
           THEN after[k] = [before[k] EXCEPT !.is_active = ~@]
           ELSE after[k] = before[k]

\* C30: after the seeding, a step that changes the social_accounts table
\* flips is_active of one addressed row and leaves every other row and
\* field as it was: no step adds, replaces or deletes a row.
C30_OnlyToggleChangesAccounts ==
    [][social_accounts' # social_accounts =>
          \E k \in 1..Len(social_accounts) :
              is_toggle_of(social_accounts, social_accounts', social_accounts[k].id)]_vars

\* the table after is the table before without the row with the given id
is_delete_of(before, after, account_id) ==
    after = SelectSeq(before, LAMBDA a : a.id # account_id)

\* the table after is the table before without the row that holds the
\* platform and username of its last row, which is new: active, under an
\* id the table has not given out before
is_add_of(before, after) ==
    /\ Len(after) >= 1
    /\ \E new \in {after[Len(after)]} :
           /\ new.is_active
           /\ new.id = account_seq' /\ account_seq' = account_seq + 1
           /\ \A k \in 1..Len(before) : before[k].id < new.id
           /\ SubSeq(after, 1, Len(after) - 1) =
                  SelectSeq(before, LAMBDA a : ~(a.platform = new.platform
                                                 /\ a.username = new.username))

\* this step is one of a control handler or of a loop
control_or_loop_step ==
    \/ loop_step
    \/ monitoring_active' # monitoring_active
    \/ response' # response
    \/ starting' # starting
    \/ threads' # threads

\* C30, amended: a step that changes the social_accounts table is a toggle,
\* which flips is_active of the addressed row and nothing else, an
\* add_account, which appends a new active row after deleting the row with
\* the same platform and username, or a delete_account, which removes the
\* addressed row; no step of a control handler or a loop changes the table.
C30_AccountChanges ==
    [][/\ social_accounts' # social_accounts =>
              \/ \E k \in 1..Len(social_accounts) :
                     \/ is_toggle_of(social_accounts, social_accounts',
                                     social_accounts[k].id)
                     \/ is_delete_of(social_accounts, social_accounts',
                                     social_accounts[k].id)
              \/ is_add_of(social_accounts, social_accounts')
       /\ control_or_loop_step => social_accounts' = social_accounts]_vars

\* beside a started twitter loop, the seeded twitter account has been
\* switched off and the seeded instagram account replaced by an add_account
\* of its username
C30_Witness ==
    /\ Len(threads) >= 1
    /\ \E k \in 1..Len(social_accounts) :
           social_accounts[k].platform = "twitter" /\ ~social_accounts[k].is_active
    /\ \E k \in 1..Len(social_accounts) :
           /\ social_accounts[k].username = "alluarjunonline"
           /\ social_accounts[k].id > Len(InitialAccounts)
    /\ Len(social_accounts) = Len(InitialAccounts)

unique_accounts(table) ==
    \A i, j \in 1..Len(table) :
        i # j => ~(/\ table[i].platform = table[j].platform
                   /\ table[i].username = table[j].username)

keeps_rows(before, after) ==
    /\ Len(after) >= Len(before)
    /\ \A k \in 1..Len(before) : after[k] = before[k]

\* C31: whatever add-account, toggle, delete and restart operations have
\* run, the social_accounts table holds at most one row per
\* (platform, username), and the seeding of a restart from that table leaves
\* every row it finds as it is and adds no second row for a key.
C31_UniqueAccounts ==
    /\ unique_accounts(social_accounts)
    /\ \E db \in {populate_default_accounts(social_accounts, account_seq)} :
           /\ keeps_rows(social_accounts, db.table)
           /\ unique_accounts(db.table)

\* a restart has seeded the twitter account again after its row was
\* deleted, and has left the instagram row an add_account had replaced
C31_Witness ==
    /\ \E k \in 1..Len(social_accounts) :
           /\ social_accounts[k].username = "alluarjunonline"
           /\ social_accounts[k].name = "Allu Arjun Fans"
    /\ \E k \in 1..Len(social_accounts) :
           /\ social_accounts[k].username = "alluarjun"
           /\ social_accounts[k].id > Len(InitialAccounts) + 1
    /\ Len(social_accounts) = Len(InitialAccounts)

\* the values the two classifiers give update_type
update_type_values ==
    {"trailer", "teaser", "poster", "announcement", "box_office", "review", "news"}

\* C32: every row of movie_updates stored by the per-item code of a loop
\* has an update_type out of trailer, teaser, poster, announcement,
\* box_office, review and news; none has '' or another value.
C32_StoredTypePopulated ==
    \A r \in 1..Len(movie_updates) :
        movie_updates[r].update_type \in update_type_values

\* a text without any keyword has been stored, as news, beside a trailer
C32_Witness ==
    /\ \E r \in 1..Len(movie_updates) :
           movie_updates[r].content = TextPlain /\ movie_updates[r].update_type = "news"
    /\ \E r \in 1..Len(movie_updates) : movie_updates[r].update_type = "trailer"

\* a record passes a filter that is absent, or whose value its column holds
passes_filter(value, arg) == arg = "" \/ value = arg

matches_filters(row, q) ==
    /\ passes_filter(row.platform, q.platform)
    /\ passes_filter(row.language, q.language)
    /\ passes_filter(row.update_type, q.update_type)

\* C33: an answer of the updates accessor holds only records that pass
\* every supplied filter among platform, language and update_type, and its
\* 'total' is the number of stored records that pass them, whatever page
\* and per_page are.
C33_FiltersAnded ==
    [][listing' # listing =>
          /\ \A k \in 1..Len(listing'.updates) :
                 matches_filters(listing'.updates[k], listing')
          /\ listing'.total =
                 Cardinality({ r \in 1..Len(movie_updates) :
                                   matches_filters(movie_updates[r], listing') })]_vars

\* the table holds a telugu trailer and a record that is neither; the
\* accessor was asked for telugu trailers on page 2 and answered with an
\* empty page and a total of 1
C33_Witness ==
    /\ listing.op = "get_updates"
    /\ listing.language = "telugu" /\ listing.update_type = "trailer"
    /\ listing.page = 2 /\ listing.per_page = 1
    /\ listing.total = 1
    /\ listing.updates = <<>>
    /\ Len(movie_updates) = 2

\* the query occurs in a text column of the row, as `query in column`
occurs_in(row, query) ==
    \/ contains(row.title, query)
    \/ contains(row.content, query)
    \/ contains(row.movie_name, query)
    \/ contains(name_text(row.actor_name), query)

\* C34: an answer of the search accessor holds, newest first and at most
\* 50 of them, exactly the stored records in whose title, content,
\* movie_name or actor_name the query occurs as a substring; for an empty
\* query the answer is empty and the table is not read.
C34_SearchBySubstring ==
    [][(listing' # listing /\ listing'.op = "search_updates") =>
          IF listing'.q = <<>>
          THEN listing'.updates = <<>> /\ ~listing'.read
          ELSE /\ Len(listing'.updates) <= 50
               /\ \A r \in 1..Len(movie_updates) :
                      occurs_in(movie_updates[r], listing'.q)
                          <=> \E k \in 1..Len(listing'.updates) :
                                  listing'.updates[k] = movie_updates[r]
               /\ \A a, b \in 1..Len(listing'.updates) :
                      a < b => \E r, s \in 1..Len(movie_updates) :
                                   /\ movie_updates[r] = listing'.updates[a]
                                   /\ movie_updates[s] = listing'.updates[b]
                                   /\ created_at[r] >= created_at[s]]_vars

\* thread t, from the read of the list to the end of the `for` loop over
\* it: the list read is the active rows of the platform at that moment, it
\* stays as read, and the iterations take its entries one after the other
pass_over_list(t) ==
    /\ (threads[t].pc = "top" /\ threads'[t].pc = "acct") =>
           /\ threads'[t].accounts =
                  SelectSeq(social_accounts,
                            LAMBDA a : a.is_active /\ a.platform = threads[t].platform)
           /\ threads'[t].i = 1
    /\ (threads[t].pc \in {"acct", "item"} /\ threads'[t].pc \in {"acct", "item"}) =>
           /\ threads'[t].accounts = threads[t].accounts
           /\ threads'[t].i \in {threads[t].i, threads[t].i + 1}
           /\ threads'[t].pc = "item" => threads'[t].i = threads[t].i
    /\ threads[t].pc \in {"acct", "item"} =>
           threads[t].i \in 1..Len(threads[t].accounts)

\* C35 as stated: every loop reads the active account list at the start of
\* a batch pass and fetches the accounts of that list, in listed order, and
\* no other.
C35_EveryLoopFetchesListed ==
    [][\A t \in 1..Len(threads) : pass_over_list(t)]_vars

\* C35, for the loops over accounts: a twitter or instagram loop reads the
\* active accounts of its platform once at the start of a batch pass and
\* iterates that list in its order; an account that is inactive at the read
\* is not in the list, and a toggle after the read leaves the list of the
\* running pass as it is, so the account is dropped only by the next read.
C35_AccountLoopFetchesListed ==
    [][\A t \in 1..Len(threads) :
           reads_accounts(threads[t].target) => pass_over_list(t)]_vars

\* the twitter loop handles an item of the first account, which was
\* switched off after the loop had read the list
C35_Witness ==
    \E t \in 1..Len(threads) :
        /\ threads[t].target = "monitor_twitter"
        /\ threads[t].pc = "item"
        /\ threads[t].accounts[threads[t].i].id = 1
        /\ \E k \in 1..Len(social_accounts) :
               social_accounts[k].id = 1 /\ ~social_accounts[k].is_active

\* the step leaves thread t where it is, or takes it toward the end of its
\* loop without a fetch: from the `while` out of the loop, from the head of
\* an iteration out of its `for`, from an item to the next item or to the
\* end of the iteration
winds_down(t) ==
    /\ threads[t].pc = "top" => threads'[t].pc \in {"top", "done"}
    /\ threads[t].pc = "acct" =>
           /\ threads'[t].pc \in {"acct", "top"}
           /\ threads'[t] # threads[t] =>
                  threads'[t].pc = "top" \/ threads'[t].pass > threads[t].pass
    /\ threads[t].pc = "item" =>
           /\ threads'[t].pc \in {"item", "acct", "top"}
           /\ threads'[t].pc = "item" =>
                  position(threads'[t]) = position(threads[t])
    /\ threads[t].pc = "done" => threads'[t].pc = "done"
    /\ threads'[t].fetched \subseteq threads[t].fetched
    /\ threads'[t].raised \subseteq threads[t].raised

\* C36: while the run flag is cleared, no loop starts the fetch of a
\* further account or source: a loop handling the items of a fetch goes on
\* with them, a loop at the head of an iteration breaks out of its `for`,
\* and a loop at its `while` ends.
C36_NoFurtherAccountAfterStop ==
    [][~monitoring_active => \A t \in 1..Len(threads) : winds_down(t)]_vars

\* the monitor was stopped, one loop has ended, and a loop of a later start
\* call was stopped with the items of a fetch in hand
C36_Witness ==
    /\ ~monitoring_active
    /\ response.op = "stop_monitoring"
    /\ \E t \in 1..Len(threads) : threads[t].pc = "done"
    /\ \E t \in 1..Len(threads) : threads[t].pc = "item"

\* seg is what follows the last '/' of url (all of url when it has none)
is_last_segment(seg, url) ==
    /\ Len(seg) <= Len(url)
    /\ \A k \in 1..Len(seg) : seg[k] = url[Len(url) - Len(seg) + k] /\ seg[k] # "/"
    /\ Len(seg) < Len(url) => url[Len(url) - Len(seg)] = "/"

\* C37: a record of the news loop is keyed by the last '/'-separated
\* segment of its article's URL ('' for a URL that ends in '/'), so the
\* table holds at most one news record per segment; the save of an article
\* whose segment a record already holds, under whatever URL, leaves the
\* table as it is.
C37_NewsKeyIsLastSegment ==
    /\ [](\A r \in 1..Len(movie_updates) :
              /\ is_last_segment(movie_updates[r].content_id, movie_updates[r].url)
              /\ \A s \in 1..Len(movie_updates) :
                     is_last_segment(movie_updates[r].content_id, movie_updates[s].url)
                         => s = r)
    /\ [][\A r \in 1..Len(movie_updates) :
              (last_save' # last_save
                   /\ is_last_segment(movie_updates[r].content_id, last_save'.url))
                  => movie_updates' = movie_updates]_vars

\* the article of a.in ending in 'film' is stored, and the article of b.in
\* ending in 'film' was taken for a duplicate of it; likewise for the two
\* articles ending in '/'
C37_Witness ==
    /\ last_save # NoSave
    /\ last_save.existed
    /\ last_save.url = <<"b",".","i","n","/","f","i","l","m">>
    /\ \E r \in 1..Len(movie_updates) :
           movie_updates[r].url = <<"a",".","i","n","/","f","i","l","m">>
    /\ \E r \in 1..Len(movie_updates) :
           /\ movie_updates[r].content_id = <<>>
           /\ movie_updates[r].url = <<"a",".","i","n","/","x","/">>
    /\ \A r \in 1..Len(movie_updates) :
           movie_updates[r].url # <<"b",".","i","n","/","y","/">>

\* C38: every record the twitter loop stores has empty movie_name,
\* actor_name, director_name and production_house, whatever the tweet says.
C38_TwitterEntitiesEmpty ==
    \A r \in 1..Len(movie_updates) :
        movie_updates[r].platform = "twitter" =>
            /\ movie_updates[r].movie_name = <<>>
            /\ movie_updates[r].actor_name = ""
            /\ movie_updates[r].director_name = ""
            /\ movie_updates[r].production_house = ""

\* the table holds the tweet of the Pushpa 2 trailer, filed as a telugu
\* trailer, and a tweet naming Prabhas
C38_Witness ==
    /\ \E r \in 1..Len(movie_updates) :
           /\ movie_updates[r].platform = "twitter"
           /\ movie_updates[r].content = TextPushpa
           /\ movie_updates[r].update_type = "trailer"
           /\ movie_updates[r].language = "telugu"
    /\ \E r \in 1..Len(movie_updates) :
           /\ movie_updates[r].platform = "twitter"
           /\ contains(lower(movie_updates[r].content),
                       <<"p","r","a","b","h","a","s">>)

\* the settings of the call hold an interval under 5 minutes
some_interval_under_5(cls) ==
    cls.TWITTER_INTERVAL < 5 \/ cls.INSTAGRAM_INTERVAL < 5 \/ cls.YOUTUBE_INTERVAL < 5

\* what can only warn: a credential that is not set, an interval over 120
\* minutes, the default admin password
warning_conditions(cls) ==
    Cardinality({ a \in {"TWITTER_BEARER_TOKEN", "INSTAGRAM_ACCESS_TOKEN",
                         "YOUTUBE_API_KEY"} : cls[a] = "" })
        + (IF cls.TELEGRAM_BOT_TOKEN = "" \/ cls.TELEGRAM_CHANNEL_ID = "" THEN 1 ELSE 0)
        + Cardinality({ a \in {"TWITTER_INTERVAL", "INSTAGRAM_INTERVAL",
                               "YOUTUBE_INTERVAL"} : cls[a] > 120 })
        + (IF cls.ADMIN_PASSWORD = "admin123" THEN 1 ELSE 0)

\* C39: validate_config returns valid = False exactly when an interval of
\* twitter, instagram or youtube is under 5 minutes or SECRET_KEY has its
\* default value; a credential that is not set, an interval over 120
\* minutes and the default admin password each add a warning and nothing
\* else.
C39_InvalidOnlyOnLowIntervalOrDefaultKey ==
    config_call.fn = "validate_config" =>
        /\ ~config_call.result.valid <=>
               \/ some_interval_under_5(config_call.cls)
               \/ config_call.cls.SECRET_KEY =
                      "movie-monitor-secret-key-please-change-in-production"
        /\ Len(config_call.result.warnings) = warning_conditions(config_call.cls)
        /\ config_call.result.valid <=> config_call.result.errors = <<>>

\* a class without credentials, with an interval of 121 minutes and the
\* default admin password, was found valid, with six warnings
C39_Witness ==
    /\ config_call.fn = "validate_config"
    /\ config_call.result.valid
    /\ config_call.cls.TWITTER_BEARER_TOKEN = ""
    /\ config_call.cls.TELEGRAM_CHANNEL_ID = ""
    /\ config_call.cls.TWITTER_INTERVAL = 121
    /\ config_call.cls.INSTAGRAM_INTERVAL = 5
    /\ config_call.cls.ADMIN_PASSWORD = "admin123"
    /\ Len(config_call.result.warnings) = 6

\* the name get_config looks up: the argument, or FLASK_ENV ('default'
\* when unset) when the argument is None
looked_up_name(call) ==
    IF call.config_name # NoName THEN call.config_name
    ELSE IF call.flask_env # NoName THEN call.flask_env ELSE "default"

\* C40: get_config returns the class registered under the name
\* (development, testing, production, default), and the default Config for
\* a name that is not registered; it does not raise.
C40_UnknownNameFallsBack ==
    config_call.fn = "get_config" =>
        config_call.result =
            CASE looked_up_name(config_call) = "development" -> "DevelopmentConfig"
              [] looked_up_name(config_call) = "testing" -> "TestingConfig"
              [] looked_up_name(config_call) = "production" -> "ProductionConfig"
              [] OTHER -> "Config"

\* the name 'staging', which is not registered, was answered with Config
C40_Witness ==
    /\ config_call.fn = "get_config"
    /\ config_call.config_name = "staging"
    /\ config_call.result = "Config"
====
